---- MODULE Spec2Model ----
(***************************************************************************)
(* A model of the SEC ownership scraper (scrape_proxy_holders.py,          *)
(* src/simple_scraper.py, src/comprehensive_market_scraper.py).            *)
(*                                                                         *)
(* The module holds several specifications over one set of variables; each *)
(* specification moves the variables of one component and leaves the       *)
(* others at their initial values:                                         *)
(*   SpecFetch   get_response / get_json (retry with backoff)              *)
(*   SpecLocate  find_latest_def14a and the driver's checks of its result, *)
(*               and the selection of the pattern scrapers                 *)
(*   SpecParse   parse_proxy_content (the extraction cascade)              *)
(*   SpecIndex   get_ticker_cik_map and the driver's lookup in its result  *)
(*   SpecCall    single calls of clean_holder_name,                        *)
(*               detect_ownership_columns, process_ownership_table,        *)
(*               detect_content_type, the ticker normalization and the     *)
(*               institution-pattern extraction                            *)
(*   SpecSection single calls of find_ownership_table_in_html on a         *)
(*               document tree                                             *)
(*   SpecBatch   the batch runs of the three scrapers; the table/text      *)
(*               scraper runs the cascade for each downloaded document     *)
(*                                                                         *)
(* Text is modelled as a sequence of one-character strings, numbers with a *)
(* fraction as integers in hundredths, seconds as integers in half-seconds.*)
(***************************************************************************)
EXTENDS Integers, Sequences, FiniteSets, TLC

VARIABLES
    gr_pc,        \* position of the caller in get_response / get_json
    gr_mode,      \* "response": get_response was called; "json": get_json
    gr_retries,   \* parameter retries
    gr_backoff,   \* parameter backoff, in half-seconds
    gr_i,         \* loop variable i of get_response
    gr_events,    \* requests issued and sleeps taken, in order
    gr_body_ok,   \* whether the body of the returned response is valid JSON
    gr_result     \* what the call gave its caller

fetchVars == <<gr_pc, gr_mode, gr_retries, gr_backoff, gr_i, gr_events,
               gr_body_ok, gr_result>>

VARIABLES
    loc_pc,       \* position in the filing locator
    loc_subs,     \* the submissions document (subs)
    loc_found,    \* what find_latest_def14a returned (found)
    loc_outcome   \* what the driver made of it: a skip or the filing URL

locVars == <<loc_pc, loc_subs, loc_found, loc_outcome>>

VARIABLES
    pa_pc,        \* position in parse_proxy_content
    pa_doc,       \* the filing document (content)
    pa_ctype,     \* content_type, once detected
    pa_trace,     \* the strategies run so far, each with what it returned
    pa_result     \* what parse_proxy_content returned

parseVars == <<pa_pc, pa_doc, pa_ctype, pa_trace, pa_result>>

VARIABLES
    b_kind,       \* which scraper runs: "proxy", "simple" or "comprehensive"
    b_limit,      \* the limit argument of fetch_ownership_for_sp500
    b_index,      \* the ticker index as the server holds it
    b_pc,         \* position in the batch loop
    b_idx,        \* position of the loop in the company list
    b_processed,  \* processed
    b_tick2cik,   \* tick2cik / self._cik_cache, once built
    b_cur,        \* the locals of the company in progress
    b_rows,       \* rows / all_data / all_ownership_data
    b_outcomes,   \* how each company passed so far ended
    b_requests,   \* the requests issued so far
    b_output,     \* the returned table
    b_interrupted,\* a KeyboardInterrupt has arrived during the run
    b_file        \* the CSV file the entry point wrote

batchVars == <<b_kind, b_limit, b_index, b_pc, b_idx, b_processed, b_tick2cik,
               b_cur, b_rows, b_outcomes, b_requests, b_output, b_interrupted,
               b_file>>

VARIABLES
    ix_pc,        \* position in get_ticker_cik_map, then in the driver
    ix_primary,   \* what the primary index request gives
    ix_fallback,  \* what the fallback index request gives
    ix_requests,  \* the index requests issued so far
    ix_out,       \* the returned mapping
    ix_lookup     \* the driver's last lookup in the mapping

indexVars == <<ix_pc, ix_primary, ix_fallback, ix_requests, ix_out, ix_lookup>>

VARIABLES
    call_fn,      \* the function called
    call_arg,     \* its argument
    call_ret,     \* what it returned
    call_pc       \* "called", "returned", or "again" after a second call

callVars == <<call_fn, call_arg, call_ret, call_pc>>

vars == <<fetchVars, locVars, parseVars, batchVars, indexVars, callVars>>

\* what an action of one component leaves alone
notFetch == <<locVars, parseVars, batchVars, indexVars, callVars>>
notLoc == <<fetchVars, parseVars, batchVars, indexVars, callVars>>
notParse == <<fetchVars, locVars, batchVars, indexVars, callVars>>
notBatch == <<fetchVars, locVars, parseVars, indexVars, callVars>>
notIndex == <<fetchVars, locVars, parseVars, batchVars, callVars>>
notCall == <<fetchVars, locVars, parseVars, batchVars, indexVars>>

(***************************************************************************)
(* Bounds of the model.                                                    *)
(***************************************************************************)
MaxRetriesArg == 3
\* the longest submissions history
MaxEntries == 3

(***************************************************************************)
(* Program constants.                                                      *)
(***************************************************************************)
MAX_RETRIES == 3
\* BACKOFF_FACTOR = 1.5 seconds, in half-seconds
BACKOFF_FACTOR == 3
\* get_json's default backoff = 1.0 seconds, in half-seconds
GET_JSON_BACKOFF == 2

(***************************************************************************)
(* Text: a Python str is a sequence of one-character strings.              *)
(***************************************************************************)
LowerLetters == <<"a", "b", "c", "d", "e", "f", "g", "h", "i", "j", "k", "l",
                  "m", "n", "o", "p", "q", "r", "s", "t", "u", "v", "w", "x",
                  "y", "z">>
UpperLetters == <<"A", "B", "C", "D", "E", "F", "G", "H", "I", "J", "K", "L",
                  "M", "N", "O", "P", "Q", "R", "S", "T", "U", "V", "W", "X",
                  "Y", "Z">>
Digits == <<"0", "1", "2", "3", "4", "5", "6", "7", "8", "9">>

IndexIn(seq, c) ==
    IF \E k \in 1 .. Len(seq) : seq[k] = c
    THEN CHOOSE k \in 1 .. Len(seq) : seq[k] = c
    ELSE 0

IsLetter(c) == IndexIn(LowerLetters, c) > 0 \/ IndexIn(UpperLetters, c) > 0
IsDigit(c) == IndexIn(Digits, c) > 0
\* str.isspace / regex \s for the characters of the model
IsSpace(c) == c \in {" ", "\t", "\n"}

UpperChar(c) ==
    IF IndexIn(LowerLetters, c) > 0 THEN UpperLetters[IndexIn(LowerLetters, c)] ELSE c
LowerChar(c) ==
    IF IndexIn(UpperLetters, c) > 0 THEN LowerLetters[IndexIn(UpperLetters, c)] ELSE c

\* str.upper(), str.lower()
StrUpper(s) == [k \in 1 .. Len(s) |-> UpperChar(s[k])]
StrLower(s) == [k \in 1 .. Len(s) |-> LowerChar(s[k])]

\* str.strip()
RECURSIVE LStrip(_)
LStrip(s) == IF s # <<>> /\ IsSpace(Head(s)) THEN LStrip(Tail(s)) ELSE s
RECURSIVE RStrip(_)
RStrip(s) ==
    IF s # <<>> /\ IsSpace(s[Len(s)])
    THEN RStrip(SubSeq(s, 1, Len(s) - 1))
    ELSE s
StrStrip(s) == RStrip(LStrip(s))

\* str.replace(c, "") for a one-character c
RECURSIVE RemoveChar(_, _)
RemoveChar(s, c) ==
    IF s = <<>> THEN <<>>
    ELSE IF Head(s) = c THEN RemoveChar(Tail(s), c)
    ELSE <<Head(s)>> \o RemoveChar(Tail(s), c)

\* str.replace(c, d) for one-character c and d
ReplaceChar(s, c, d) == [k \in 1 .. Len(s) |-> IF s[k] = c THEN d ELSE s[k]]

\* sub in s
StartsAt(s, sub, i) ==
    /\ i >= 1
    /\ i + Len(sub) - 1 <= Len(s)
    /\ SubSeq(s, i, i + Len(sub) - 1) = sub
Contains(s, sub) == \E i \in 1 .. Len(s) + 1 : StartsAt(s, sub, i)

\* The code point order of the characters that dates are made of: "-" (45)
\* comes before the digits (48..57).
CharOrd(c) == IF c = "-" THEN 0 ELSE IndexIn(Digits, c)

\* a > b for Python strings: the first differing character decides, and a
\* proper prefix is the smaller one.
RECURSIVE StrGT(_, _)
StrGT(a, b) ==
    IF a = <<>> THEN FALSE
    ELSE IF b = <<>> THEN TRUE
    ELSE IF Head(a) = Head(b) THEN StrGT(Tail(a), Tail(b))
    ELSE CharOrd(Head(a)) > CharOrd(Head(b))

(***************************************************************************)
(* HTTP fetch layer: get_response, get_json.                               *)
(***************************************************************************)
\* What one requests.get can give: a transport failure (a
\* requests.RequestException raised by requests.get) or a response with a
\* status code.
Statuses == {"200", "304", "404", "503"}
Outcomes == {"transport"} \cup Statuses

StatusCode(o) ==
    CASE o = "200" -> 200
      [] o = "304" -> 304
      [] o = "404" -> 404
      [] o = "503" -> 503

\* response.raise_for_status(): raises HTTPError for 4xx and 5xx.
raise_for_status(status) == status >= 400 /\ status < 600

\* Whether one attempt (requests.get, then raise_for_status) raises.
AttemptFails(o) ==
    IF o = "transport" THEN TRUE ELSE raise_for_status(StatusCode(o))

\* The exception an attempt raises.
AttemptError(o) == IF o = "transport" THEN "RequestException" ELSE "HTTPError"

\* (mutant) the exponent counts attempts from one.
SleepTimeNextPower(backoff, i) == backoff * (2 ^ (i + 1))

\* sleep_time = backoff * (2 ** i)
SleepTime(backoff, i) == backoff * (2 ^ i)

\* `if i < retries` of the except clause: sleep and try again, else re-raise.
RetriesLeft(i, retries) == i < retries

RequestEvent(o) == [kind |-> "request", outcome |-> o, t |-> 0]
SleepEvent(t) == [kind |-> "sleep", outcome |-> "none", t |-> t]

NoResult == [kind |-> "none", error |-> "none"]

\* get_response(url, retries=n, backoff=b) is called.
GetResponseCall(n, b) ==
    /\ gr_pc = "idle"
    /\ gr_pc' = "try"
    /\ gr_mode' = "response"
    /\ gr_retries' = n
    /\ gr_backoff' = b
    /\ gr_i' = 0
    /\ UNCHANGED <<gr_events, gr_body_ok, gr_result>>
    /\ UNCHANGED notFetch

\* get_json(url, retries=n, backoff=b) is called: it calls get_response.
GetJsonCall(n, b) ==
    /\ gr_pc = "idle"
    /\ gr_pc' = "try"
    /\ gr_mode' = "json"
    /\ gr_retries' = n
    /\ gr_backoff' = b
    /\ gr_i' = 0
    /\ UNCHANGED <<gr_events, gr_body_ok, gr_result>>
    /\ UNCHANGED notFetch

\* One pass of the for loop's try block with its except clause, up to the
\* sleep: the request is made; a good response is returned at once, a
\* failure either goes on to sleep or is re-raised.
Attempt(o, bodyOk) ==
    /\ gr_pc = "try"
    /\ gr_i <= gr_retries
    /\ gr_events' = Append(gr_events, RequestEvent(o))
    /\ IF ~AttemptFails(o)
       THEN /\ gr_body_ok' = bodyOk
            /\ IF gr_mode = "response"
               THEN /\ gr_pc' = "done"
                    /\ gr_result' = [kind |-> "response", error |-> "none"]
               ELSE /\ gr_pc' = "decode"
                    /\ gr_result' = gr_result
       ELSE /\ gr_body_ok' = gr_body_ok
            /\ IF RetriesLeft(gr_i, gr_retries)
               THEN /\ gr_pc' = "backoff"
                    /\ gr_result' = gr_result
               ELSE /\ gr_pc' = "done"
                    /\ gr_result' = [kind |-> "raised", error |-> AttemptError(o)]
    /\ UNCHANGED <<gr_mode, gr_retries, gr_backoff, gr_i>>
    /\ UNCHANGED notFetch

\* time.sleep(sleep_time) of the except clause, then the next loop pass.
Backoff ==
    /\ gr_pc = "backoff"
    /\ gr_events' = Append(gr_events, SleepEvent(SleepTime(gr_backoff, gr_i)))
    /\ gr_i' = gr_i + 1
    /\ gr_pc' = "try"
    /\ UNCHANGED <<gr_mode, gr_retries, gr_backoff, gr_body_ok, gr_result>>
    /\ UNCHANGED notFetch

\* get_json after get_response returned: r.json(), a JSONDecodeError becomes
\* a ValueError.
JsonError == "ValueError"

\* (mutant) a body that is not JSON sends the caller back to request again.
JsonDecodeRefetch ==
    /\ gr_pc = "decode"
    /\ gr_pc' = IF gr_body_ok THEN "done" ELSE "try"
    /\ gr_result' = IF gr_body_ok
                    THEN [kind |-> "json", error |-> "none"]
                    ELSE gr_result
    /\ UNCHANGED <<gr_mode, gr_retries, gr_backoff, gr_i, gr_events, gr_body_ok>>
    /\ UNCHANGED notFetch

JsonDecode ==
    /\ gr_pc = "decode"
    /\ gr_pc' = "done"
    /\ gr_result' = IF gr_body_ok
                    THEN [kind |-> "json", error |-> "none"]
                    ELSE [kind |-> "raised", error |-> JsonError]
    /\ UNCHANGED <<gr_mode, gr_retries, gr_backoff, gr_i, gr_events, gr_body_ok>>
    /\ UNCHANGED notFetch

FetchInit ==
    /\ gr_pc = "idle"
    /\ gr_mode = "response"
    /\ gr_retries = 0
    /\ gr_backoff = 0
    /\ gr_i = 0
    /\ gr_events = <<>>
    /\ gr_body_ok = TRUE
    /\ gr_result = NoResult

RetriesArgs == 0 .. MaxRetriesArg
BackoffArgs == {GET_JSON_BACKOFF, BACKOFF_FACTOR}

FetchNext ==
    \/ \E n \in RetriesArgs, b \in BackoffArgs : GetResponseCall(n, b)
    \/ \E n \in RetriesArgs, b \in BackoffArgs : GetJsonCall(n, b)
    \/ \E o \in Outcomes, bodyOk \in BOOLEAN : Attempt(o, bodyOk)
    \/ Backoff
    \/ JsonDecode

(***************************************************************************)
(* Filing locator: find_latest_def14a and the driver's use of its result.  *)
(***************************************************************************)
FORM_DEF14A == <<"D", "E", "F", " ", "1", "4", "A">>
FORM_DEF14 == <<"D", "E", "F", " ", "1", "4">>

\* `str(form).strip().upper() in ["DEF 14A", "DEF 14"]`
IsProxyForm(form) == StrUpper(StrStrip(form)) \in {FORM_DEF14A, FORM_DEF14}

\* `(latest_date is None) or (d > latest_date)`; latest_idx = 0 stands for None.
\* (mutant) a later entry with an equal date replaces the earlier one.
IsNewerOrEqual(latest_idx, latest_date, d) ==
    latest_idx = 0 \/ ~StrGT(latest_date, d)
IsNewer(latest_idx, latest_date, d) == latest_idx = 0 \/ StrGT(d, latest_date)

\* The for loop of find_latest_def14a from entry i on; entries are counted
\* from 1 and 0 stands for None.
RECURSIVE ScanForms(_, _, _, _, _)
ScanForms(forms, filing_dates, i, latest_idx, latest_date) ==
    IF i > Len(forms) THEN latest_idx
    ELSE IF IsProxyForm(forms[i])
            /\ IsNewer(latest_idx, latest_date, filing_dates[i])
         THEN ScanForms(forms, filing_dates, i + 1, i, filing_dates[i])
         ELSE ScanForms(forms, filing_dates, i + 1, latest_idx, latest_date)

None == [none |-> TRUE]

\* find_latest_def14a(subs): None, or (filing date, accession without dashes,
\* primary document), the primary document "" when the array is too short.
find_latest_def14a(subs) ==
    LET latest_idx == ScanForms(subs.form, subs.filingDate, 1, 0, <<>>)
    IN  IF latest_idx = 0 THEN None
        ELSE [none |-> FALSE,
              filing_date |-> subs.filingDate[latest_idx],
              acc_nodash |-> RemoveChar(subs.accessionNumber[latest_idx], "-"),
              primary_doc |-> IF latest_idx <= Len(subs.primaryDocument)
                              THEN subs.primaryDocument[latest_idx]
                              ELSE <<>>]

\* (mutant) the driver falls back on nothing but also does not skip: it
\* builds the URL whatever the primary document is.
FilingOfFoundNoDocCheck(found) ==
    IF found.none THEN [state |-> "skippedNoFiling"]
    ELSE [state |-> "located", filing_date |-> found.filing_date,
          acc_nodash |-> found.acc_nodash, primary_doc |-> found.primary_doc]

\* The driver after find_latest_def14a: `if not found: continue`,
\* `if not primary_doc: continue`, else the parts of the filing URL.
FilingOfFound(found) ==
    IF found.none THEN [state |-> "skippedNoFiling"]
    ELSE IF found.primary_doc = <<>> THEN [state |-> "skippedNoDocument"]
    ELSE [state |-> "located", filing_date |-> found.filing_date,
          acc_nodash |-> found.acc_nodash, primary_doc |-> found.primary_doc]

\* The submissions documents of the model: parallel arrays of one length,
\* the primaryDocument array possibly one entry short.
FormChoices == {FORM_DEF14A, <<" ", "d", "e", "f", " ", "1", "4", " ">>, <<"D", "E", "F", "A", "1", "4", "A">>}
DateChoices == {<<"2", "0", "2", "3", "-", "0", "1", "-", "0", "1">>, <<"2", "0", "2", "3", "-", "1", "1", "-", "3", "0">>, <<"2", "0", "2", "4", "-", "0", "6", "-", "1", "5">>}
DocChoices == {<<>>, <<"p", "r", "o", "x", "y", ".", "h", "t", "m">>}
\* accession numbers, one per position
AccessionAt(k) == <<"0", "0", "0", "1", "-", "2", "4", "-", "0", "0", "0", "0", "0">> \o <<Digits[k + 1]>>

SeqsOfLen(S, n) == [1 .. n -> S]

\* the submissions documents with n entries
SubsDocs(n) ==
    { [form |-> f,
       filingDate |-> d,
       accessionNumber |-> [k \in 1 .. n |-> AccessionAt(k)],
       primaryDocument |-> SubSeq(p, 1, m)] :
         f \in SeqsOfLen(FormChoices, n),
         d \in SeqsOfLen(DateChoices, n),
         p \in SeqsOfLen(DocChoices, n),
         m \in {n, IF n > 0 THEN n - 1 ELSE 0} }

LocIdle ==
    /\ loc_pc = "off"
    /\ loc_subs = [form |-> <<>>, filingDate |-> <<>>, accessionNumber |-> <<>>,
                   primaryDocument |-> <<>>]
    /\ loc_found = None
    /\ loc_outcome = [state |-> "pending"]

LocInit ==
    /\ loc_pc = "find"
    /\ \E n \in 0 .. MaxEntries : loc_subs \in SubsDocs(n)
    /\ loc_found = None
    /\ loc_outcome = [state |-> "pending"]

\* found = find_latest_def14a(subs)
LocFind ==
    /\ loc_pc = "find"
    /\ loc_found' = find_latest_def14a(loc_subs)
    /\ loc_pc' = "check"
    /\ UNCHANGED <<loc_subs, loc_outcome>>
    /\ UNCHANGED notLoc

\* the driver's checks of found and primary_doc
LocCheck ==
    /\ loc_pc = "check"
    /\ loc_outcome' = FilingOfFound(loc_found)
    /\ loc_pc' = "done"
    /\ UNCHANGED <<loc_subs, loc_found>>
    /\ UNCHANGED notLoc

(***************************************************************************)
(* Values.  A nullable value is <<>> (None) or <<v>>.  A percentage is an  *)
(* integer number of hundredths of a percent point (8.5 is 850); a cell of *)
(* a parsed table is the text str(x) gives for it, or NaN.                 *)
(***************************************************************************)
Null == <<>>
Some(v) == <<v>>
NaN == <<"NaN">>

\* int(s) for a string of decimal digits
RECURSIVE ParseNat(_)
ParseNat(ds) ==
    IF ds = <<>> THEN 0
    ELSE 10 * ParseNat(SubSeq(ds, 1, Len(ds) - 1)) + (IndexIn(Digits, ds[Len(ds)]) - 1)

\* the hundredths that the digits after a decimal point stand for (the
\* texts of the model have at most two of them)
FracHundredths(ds) ==
    IF Len(ds) = 0 THEN 0
    ELSE IF Len(ds) = 1 THEN 10 * ParseNat(ds)
    ELSE ParseNat(SubSeq(ds, 1, 2))

\* the end of the run of digits that starts at i (i - 1 when s[i] is none)
RECURSIVE DigitRunEnd(_, _)
DigitRunEnd(s, i) ==
    IF i <= Len(s) /\ IsDigit(s[i]) THEN DigitRunEnd(s, i + 1) ELSE i - 1

RECURSIVE SkipSpaces(_, _)
SkipSpaces(s, i) ==
    IF i <= Len(s) /\ IsSpace(s[i]) THEN SkipSpaces(s, i + 1) ELSE i

\* float(text) for a text `digits` or `digits.digits`, in hundredths
DecimalValue(s) ==
    LET e == DigitRunEnd(s, 1)
    IN  100 * ParseNat(SubSeq(s, 1, e))
          + (IF e < Len(s) THEN FracHundredths(SubSeq(s, e + 2, Len(s))) ELSE 0)

\* whether s is `digits` or `digits.digits` (`digits.` too: float takes it)
IsDecimal(s) ==
    LET e == DigitRunEnd(s, 1)
    IN  /\ e >= 1
        /\ \/ e = Len(s)
           \/ /\ s[e + 1] = "."
              /\ DigitRunEnd(s, e + 2) = Len(s)

\* float(s) of extract_percent for the texts of the model: surrounding
\* blanks and a sign are accepted, anything else raises (None below).
FloatOf(s) ==
    LET t == StrStrip(s)
        neg == t # <<>> /\ Head(t) = "-"
        u == IF neg THEN Tail(t) ELSE t
    IN  IF IsDecimal(u)
        THEN Some(IF neg THEN 0 - DecimalValue(u) ELSE DecimalValue(u))
        ELSE Null

\* re `([0-9]+(?:\.[0-9]+)?)\s*%` tried at position i: the end of group 1,
\* or 0 when there is no match at i.
PercentGroupEndAt(s, i) ==
    LET e == DigitRunEnd(s, i)
        f == IF e + 1 <= Len(s) /\ s[e + 1] = "." THEN DigitRunEnd(s, e + 2) ELSE e
        afterFrac == SkipSpaces(s, f + 1)
        afterInt == SkipSpaces(s, e + 1)
    IN  IF e < i THEN 0
        ELSE IF f > e + 1 /\ afterFrac <= Len(s) /\ s[afterFrac] = "%" THEN f
        ELSE IF afterInt <= Len(s) /\ s[afterInt] = "%" THEN e
        ELSE 0

\* extract_percent(value)
extract_percent(value) ==
    IF value = NaN THEN Null
    ELSE LET starts == {i \in 1 .. Len(value) : PercentGroupEndAt(value, i) > 0}
         IN  IF starts # {}
             THEN LET i == CHOOSE i \in starts : \A j \in starts : i <= j
                  IN  Some(DecimalValue(SubSeq(value, i, PercentGroupEndAt(value, i))))
             ELSE FloatOf(value)

\* re.sub(r"[^\d]", "", s)
RECURSIVE OnlyDigits(_)
OnlyDigits(s) ==
    IF s = <<>> THEN <<>>
    ELSE IF IsDigit(Head(s)) THEN <<Head(s)>> \o OnlyDigits(Tail(s))
    ELSE OnlyDigits(Tail(s))

\* (mutant) int() of the digits before the first other character
to_int_leading(x) ==
    IF x = NaN THEN Null
    ELSE LET stop == IF \E k \in 1 .. Len(x) : ~IsDigit(x[k])
                     THEN CHOOSE k \in 1 .. Len(x) :
                              ~IsDigit(x[k]) /\ \A j \in 1 .. k - 1 : IsDigit(x[j])
                     ELSE Len(x) + 1
             ds == SubSeq(x, 1, stop - 1)
         IN  IF ds # <<>> THEN Some(ParseNat(ds)) ELSE Null

\* to_int(x) of process_ownership_table
to_int(x) ==
    IF x = NaN THEN Null
    ELSE LET ds == OnlyDigits(x)
         IN  IF ds # <<>> THEN Some(ParseNat(ds)) ELSE Null

(***************************************************************************)
(* Holder name canonicalization: clean_holder_name.                        *)
(***************************************************************************)
\* (mutant) one pass that replaces each pair of blanks by one blank
RECURSIVE CollapseSpacePairs(_)
CollapseSpacePairs(s) ==
    IF s = <<>> THEN <<>>
    ELSE IF Len(s) >= 2 /\ IsSpace(s[1]) /\ IsSpace(s[2])
         THEN <<" ">> \o CollapseSpacePairs(Tail(Tail(s)))
         ELSE <<Head(s)>> \o CollapseSpacePairs(Tail(s))

\* re.sub(r"\s+", " ", name)
RECURSIVE CollapseSpaces(_)
CollapseSpaces(s) ==
    IF s = <<>> THEN <<>>
    ELSE IF IsSpace(Head(s))
         THEN <<" ">> \o CollapseSpaces(LStrip(s))
         ELSE <<Head(s)>> \o CollapseSpaces(Tail(s))

\* regex \w for the characters of the model
IsWordChar(c) == IsLetter(c) \/ IsDigit(c) \/ c = "_"

\* re.search(r"\b" + literal, s), the literal starting with a word character
SearchAtWordStart(s, literal) ==
    \E i \in 1 .. Len(s) :
        /\ StartsAt(s, literal, i)
        /\ i = 1 \/ ~IsWordChar(s[i - 1])

\* The alias rules in their order: for each rule the literals its pattern
\* begins with (what follows them in the pattern may match nothing) and the
\* label it gives.
AliasRules ==
    << [literals |-> {<<"t", "h", "e", " ", "v", "a", "n", "g", "u", "a", "r", "d", " ", "g", "r", "o", "u", "p">>}, label |-> <<"V", "a", "n", "g", "u", "a", "r", "d", " ", "G", "r", "o", "u", "p">>],
       [literals |-> {<<"b", "l", "a", "c", "k", "r", "o", "c", "k", " ", "i", "n", "c">>, <<"b", "l", "a", "c", "k", "r", "o", "c", "k", ",", " ", "i", "n", "c">>}, label |-> <<"B", "l", "a", "c", "k", "R", "o", "c", "k">>],
       [literals |-> {<<"s", "t", "a", "t", "e", " ", "s", "t", "r", "e", "e", "t">>}, label |-> <<"S", "t", "a", "t", "e", " ", "S", "t", "r", "e", "e", "t">>],
       [literals |-> {<<"f", "i", "d", "e", "l", "i", "t", "y">>}, label |-> <<"F", "i", "d", "e", "l", "i", "t", "y">>],
       [literals |-> {<<"t", " ", "r", "o", "w", "e", " ", "p", "r", "i", "c", "e">>, <<"t", ".", " ", "r", "o", "w", "e", " ", "p", "r", "i", "c", "e">>}, label |-> <<"T", ".", " ", "R", "o", "w", "e", " ", "P", "r", "i", "c", "e">>],
       [literals |-> {<<"b", "e", "r", "k", "s", "h", "i", "r", "e", " ", "h", "a", "t", "h", "a", "w", "a", "y">>}, label |-> <<"B", "e", "r", "k", "s", "h", "i", "r", "e", " ", "H", "a", "t", "h", "a", "w", "a", "y">>] >>

\* (mutant) the last matching rule wins
clean_holder_name_last_rule(name) ==
    LET n == StrStrip(CollapseSpaces(name))
        lower == StrLower(n)
        hits == {k \in 1 .. Len(AliasRules) :
                    \E l \in AliasRules[k].literals : SearchAtWordStart(lower, l)}
    IN  IF hits # {}
        THEN AliasRules[CHOOSE k \in hits : \A j \in hits : k >= j].label
        ELSE n

\* clean_holder_name(name) for a str
clean_holder_name(name) ==
    LET n == StrStrip(CollapseSpaces(name))
        lower == StrLower(n)
        hits == {k \in 1 .. Len(AliasRules) :
                    \E l \in AliasRules[k].literals : SearchAtWordStart(lower, l)}
    IN  IF hits # {}
        THEN AliasRules[CHOOSE k \in hits : \A j \in hits : k <= j].label
        ELSE n

(***************************************************************************)
(* Row/column normalizer: detect_ownership_columns, process_ownership_table*)
(* A table (DataFrame) is [columns: the header texts, rows: the rows, each *)
(* a sequence of cells].  A record of the result is                        *)
(* [holder_raw, holder, percent_class, shares].                            *)
(***************************************************************************)
NameKeywords == {<<"n", "a", "m", "e">>, <<"b", "e", "n", "e", "f", "i", "c", "i", "a", "l">>, <<"h", "o", "l", "d", "e", "r">>, <<"s", "h", "a", "r", "e", "h", "o", "l", "d", "e", "r">>}
PercentKeywords == {<<"%">>, <<"p", "e", "r", "c", "e", "n", "t">>, <<"p", "e", "r", "c", "e", "n", "t", "a", "g", "e">>}
SharesKeywords == {<<"s", "h", "a", "r", "e">>, <<"s", "e", "c", "u", "r", "i", "t", "y">>, <<"a", "m", "o", "u", "n", "t">>, <<"n", "u", "m", "b", "e", "r">>}

HasKeyword(col_text, keywords) == \E k \in keywords : Contains(col_text, k)

\* `not col_mapping.get(role)`: the role has no column yet, or has column 0
\* (0 is falsy in Python).
NotYetMapped(entry) == entry = Null \/ entry = Some(0)

\* The loop of detect_ownership_columns from column i on (i counts from 0 as
\* in the code; columns[i + 1] is that column's header).
RECURSIVE DetectFrom(_, _, _)
DetectFrom(columns, i, cm) ==
    IF i >= Len(columns) THEN cm
    ELSE LET col_text == StrLower(columns[i + 1])
         IN  DetectFrom(columns, i + 1,
                [name |-> IF NotYetMapped(cm.name) /\ HasKeyword(col_text, NameKeywords)
                          THEN Some(i) ELSE cm.name,
                 percent |-> IF NotYetMapped(cm.percent) /\ HasKeyword(col_text, PercentKeywords)
                             THEN Some(i) ELSE cm.percent,
                 shares |-> IF NotYetMapped(cm.shares) /\ HasKeyword(col_text, SharesKeywords)
                            THEN Some(i) ELSE cm.shares])

detect_ownership_columns(columns) ==
    DetectFrom(columns, 0, [name |-> Null, percent |-> Null, shares |-> Null])

\* Series.astype(str): a missing cell becomes the text "nan"
AsTypeStr(cell) == IF cell = NaN THEN <<"n", "a", "n">> ELSE cell

TOTAL == <<"t", "o", "t", "a", "l">>

\* `"total" in holder.lower()`, `holder.str.contains("total", case=False)`
ContainsTotal(holder) == Contains(StrLower(holder), TOTAL)

\* The two row filters at the end of process_ownership_table.
\* (mutant) the total filter compares case-sensitively
KeepRowCaseSensitive(rec) == ~Contains(rec.holder, TOTAL) /\ Len(rec.holder) > 1
KeepRow(rec) == ~ContainsTotal(rec.holder) /\ Len(rec.holder) > 1

\* One row of `out` before the filters.
RowRecord(row, cm) ==
    LET holder_raw == AsTypeStr(row[(IF cm.name # Null THEN cm.name[1] ELSE 0) + 1])
    IN  [holder_raw |-> holder_raw,
         holder |-> clean_holder_name(holder_raw),
         percent_class |-> IF cm.percent # Null
                           THEN extract_percent(row[cm.percent[1] + 1]) ELSE Null,
         shares |-> IF cm.shares # Null
                    THEN to_int(row[cm.shares[1] + 1]) ELSE Null]

\* process_ownership_table(df): the rows of the result, in row order.
process_ownership_table(df) ==
    LET columns == [k \in 1 .. Len(df.columns) |-> StrStrip(CollapseSpaces(df.columns[k]))]
        cm == detect_ownership_columns(columns)
        out == [k \in 1 .. Len(df.rows) |-> RowRecord(df.rows[k], cm)]
    IN  SelectSeq(out, KeepRow)

(***************************************************************************)
(* Text fallback: extract_from_text.  The text is given by what the two    *)
(* regular expressions find in it: whether the section pattern matches,    *)
(* and the (holder, shares, percent) groups re.findall gives for the row   *)
(* pattern inside the section.                                             *)
(***************************************************************************)
DataFrame(rows) == [none |-> FALSE, rows |-> rows]

\* (mutant) the loop body without the total check
TextRowKeepsTotals(m) ==
    LET holder == StrStrip(m.holder)
        shares == IF m.shares # <<>> THEN StrStrip(RemoveChar(m.shares, ",")) ELSE <<>>
        percent == StrStrip(RemoveChar(m.percent, "%"))
    IN  IF holder = <<>> THEN <<>>
        ELSE << [holder_raw |-> holder,
                 holder |-> clean_holder_name(holder),
                 shares |-> IF shares # <<>> THEN Some(ParseNat(shares)) ELSE Null,
                 percent_class |-> FloatOf(percent)] >>

\* The body of the loop over the matches: no row for an empty or a total
\* holder, else one row.
TextRow(m) ==
    LET holder == StrStrip(m.holder)
        shares == IF m.shares # <<>> THEN StrStrip(RemoveChar(m.shares, ",")) ELSE <<>>
        percent == StrStrip(RemoveChar(m.percent, "%"))
    IN  IF holder = <<>> \/ ContainsTotal(holder) THEN <<>>
        ELSE << [holder_raw |-> holder,
                 holder |-> clean_holder_name(holder),
                 shares |-> IF shares # <<>> THEN Some(ParseNat(shares)) ELSE Null,
                 percent_class |-> FloatOf(percent)] >>

RECURSIVE TextRows(_)
TextRows(matches) ==
    IF matches = <<>> THEN <<>>
    ELSE TextRow(Head(matches)) \o TextRows(Tail(matches))

extract_from_text(text) ==
    IF ~text.has_section THEN None
    ELSE LET rows == TextRows(text.matches)
         IN  IF rows = <<>> THEN None ELSE DataFrame(rows)

(***************************************************************************)
(* Content-type sniffer: detect_content_type.                              *)
(***************************************************************************)
\* re `</[a-zA-Z]+>` found at position i
ClosingTagAt(s, i) ==
    /\ StartsAt(s, <<"<", "/">>, i)
    /\ \E e \in i + 2 .. Len(s) - 1 :
          /\ \A k \in i + 2 .. e : IsLetter(s[k])
          /\ s[e + 1] = ">"

\* (mutant) the xml test made first
detect_content_type_xml_first(content) ==
    IF \/ Contains(content, <<"<", "?", "x", "m", "l">>)
       \/ \E i \in 1 .. Len(content) : ClosingTagAt(content, i)
    THEN "xml"
    ELSE IF \/ Contains(StrLower(content), <<"<", "!", "d", "o", "c", "t", "y", "p", "e", " ", "h", "t", "m", "l">>)
            \/ Contains(StrLower(content), <<"<", "/", "h", "t", "m", "l", ">">>)
         THEN "html"
         ELSE "text"

detect_content_type(content) ==
    IF \/ Contains(StrLower(content), <<"<", "!", "d", "o", "c", "t", "y", "p", "e", " ", "h", "t", "m", "l">>)
       \/ Contains(StrLower(content), <<"<", "/", "h", "t", "m", "l", ">">>)
    THEN "html"
    ELSE IF \/ Contains(content, <<"<", "?", "x", "m", "l">>)
            \/ \E i \in 1 .. Len(content) : ClosingTagAt(content, i)
         THEN "xml"
         ELSE "text"

(***************************************************************************)
(* Ownership table extractor: parse_proxy_content.  A filing document is   *)
(* given by what the parsers find in it:                                   *)
(*   content          the markup that detect_content_type looks at         *)
(*   read_html        pd.read_html(content): it raises, or gives tables    *)
(*   html_candidates  the tables find_ownership_table_in_html reaches, in  *)
(*                    the order it reaches them, each one unparseable      *)
(*                    (pd.read_html raises on it) or a table               *)
(*   xml_candidates   the same for find_ownership_table_in_xml             *)
(*   text             what extract_from_text's patterns find               *)
(***************************************************************************)
\* (mutant) the loop without `if not processed.empty`
RECURSIVE FirstProcessedAny(_)
FirstProcessedAny(candidates) ==
    IF candidates = <<>> THEN None
    ELSE IF Head(candidates).parse_error THEN FirstProcessedAny(Tail(candidates))
    ELSE DataFrame(process_ownership_table(Head(candidates).table))

\* The loop `for table in tables: ... if not processed.empty: return
\* processed`, with the per-table try/except of the section searches.
RECURSIVE FirstProcessed(_)
FirstProcessed(candidates) ==
    IF candidates = <<>> THEN None
    ELSE IF Head(candidates).parse_error THEN FirstProcessed(Tail(candidates))
    ELSE LET processed == process_ownership_table(Head(candidates).table)
         IN  IF processed # <<>> THEN DataFrame(processed)
             ELSE FirstProcessed(Tail(candidates))

Parsed(table) == [parse_error |-> FALSE, table |-> table]
Unparseable == [parse_error |-> TRUE, table |-> [columns |-> <<>>, rows |-> <<>>]]

\* Strategy 1: pd.read_html on the whole content; an exception is swallowed.
NaiveParse(doc) ==
    IF doc.read_html.raises THEN None
    ELSE FirstProcessed([k \in 1 .. Len(doc.read_html.tables) |->
                            Parsed(doc.read_html.tables[k])])

find_ownership_table_in_html(doc) == FirstProcessed(doc.html_candidates)
find_ownership_table_in_xml(doc) == FirstProcessed(doc.xml_candidates)

\* (mutant) the format-specific searches are swapped
StrategyForTypeSwapped(content_type) ==
    IF content_type = "html" THEN "xml"
    ELSE IF content_type = "xml" THEN "html"
    ELSE "text"

\* `if content_type == "html": ... elif content_type == "xml": ...`, else
\* straight to the text extraction.
StrategyForType(content_type) ==
    IF content_type = "html" THEN "html"
    ELSE IF content_type = "xml" THEN "xml"
    ELSE "text"

PaNaive ==
    /\ pa_pc = "naive"
    /\ LET r == NaiveParse(pa_doc)
       IN  /\ pa_trace' = Append(pa_trace, [strategy |-> "naive", result |-> r])
           /\ IF ~r.none
              THEN pa_result' = r /\ pa_pc' = "done"
              ELSE pa_result' = pa_result /\ pa_pc' = "detect"
    /\ UNCHANGED <<pa_doc, pa_ctype>>
    /\ UNCHANGED notParse

PaDetect ==
    /\ pa_pc = "detect"
    /\ pa_ctype' = detect_content_type(pa_doc.content)
    /\ pa_pc' = StrategyForType(pa_ctype')
    /\ UNCHANGED <<pa_doc, pa_trace, pa_result>>
    /\ UNCHANGED notParse

PaHtml ==
    /\ pa_pc = "html"
    /\ LET r == find_ownership_table_in_html(pa_doc)
       IN  /\ pa_trace' = Append(pa_trace, [strategy |-> "html", result |-> r])
           /\ IF ~r.none
              THEN pa_result' = r /\ pa_pc' = "done"
              ELSE pa_result' = pa_result /\ pa_pc' = "text"
    /\ UNCHANGED <<pa_doc, pa_ctype>>
    /\ UNCHANGED notParse

PaXml ==
    /\ pa_pc = "xml"
    /\ LET r == find_ownership_table_in_xml(pa_doc)
       IN  /\ pa_trace' = Append(pa_trace, [strategy |-> "xml", result |-> r])
           /\ IF ~r.none
              THEN pa_result' = r /\ pa_pc' = "done"
              ELSE pa_result' = pa_result /\ pa_pc' = "text"
    /\ UNCHANGED <<pa_doc, pa_ctype>>
    /\ UNCHANGED notParse

PaText ==
    /\ pa_pc = "text"
    /\ LET r == extract_from_text(pa_doc.text)
       IN  /\ pa_trace' = Append(pa_trace, [strategy |-> "text", result |-> r])
           /\ pa_result' = r
           /\ pa_pc' = "done"
    /\ UNCHANGED <<pa_doc, pa_ctype>>
    /\ UNCHANGED notParse

ParseNext == PaNaive \/ PaDetect \/ PaHtml \/ PaXml \/ PaText

\* parse_proxy_content(content) as one function: the cascade run to its end.
parse_proxy_content(doc) ==
    LET naive == NaiveParse(doc)
        strategy == StrategyForType(detect_content_type(doc.content))
        specific == IF strategy = "html" THEN find_ownership_table_in_html(doc)
                    ELSE IF strategy = "xml" THEN find_ownership_table_in_xml(doc)
                    ELSE None
    IN  IF ~naive.none THEN naive
        ELSE IF ~specific.none THEN specific
        ELSE extract_from_text(doc.text)

(***************************************************************************)
(* The documents of the model.                                             *)
(***************************************************************************)

\* the table of the spec's scenario: one holder row and a total row
TableStandard ==
    [columns |-> <<<<"N", "a", "m", "e", " ", "o", "f", " ", " ", "B", "e", "n", "e", "f", "i", "c", "i", "a", "l", " ", "O", "w", "n", "e", "r">>, <<"S", "h", "a", "r", "e", "s">>, <<"P", "e", "r", "c", "e", "n", "t", " ", "o", "f", " ", "C", "l", "a", "s", "s">>>>,
     rows |-> << <<<<"T", "h", "e", " ", "V", "a", "n", "g", "u", "a", "r", "d", " ", " ", "G", "r", "o", "u", "p", ",", " ", "I", "n", "c", ".">>, <<"1", ",", "2", "3", "4", ",", "5", "6", "7">>, <<"8", ".", "5", "%">>>>,
                 <<<<"T", "o", "t", "a", "l">>, <<"1", ",", "2", "3", "4", ",", "5", "6", "7">>, <<"8", ".", "5", "%">>>> >>]
\* a table whose headers name neither a share nor a percent column
TableNoNumbers ==
    [columns |-> <<<<"H", "o", "l", "d", "e", "r">>, <<"N", "o", "t", "e", "s">>>>,
     rows |-> << <<<<"A", "c", "m", "e", " ", "C", "a", "p", "i", "t", "a", "l">>, <<"n", "/", "a">>>>, <<<<"T", "h", "e", " ", "V", "a", "n", "g", "u", "a", "r", "d", " ", "G", "r", "o", "u", "p", " ", "T", "o", "t", "a", "l", " ", "I", "n", "d", "e", "x">>, NaN>> >>]
\* a table with percentages outside 0..100
TablePercentOnly ==
    [columns |-> <<<<"H", "o", "l", "d", "e", "r">>, <<"P", "e", "r", "c", "e", "n", "t", " ", "o", "f", " ", "C", "l", "a", "s", "s">>>>,
     rows |-> << <<<<"A", "c", "m", "e", " ", "C", "a", "p", "i", "t", "a", "l">>, <<"1", "5", "0", "%">>>>, <<<<"B", "l", "a", "c", "k", "R", "o", "c", "k", ",", " ", "I", "n", "c", ".">>, <<"-", "5">>>>, <<<<"S", "t", "a", "t", "e", " ", "S", "t", "r", "e", "e", "t", " ", "C", "o", "r", "p">>, <<"7", ".", "2">>>> >>]
\* a table with nothing but a total row
TableTotalsOnly ==
    [columns |-> <<<<"N", "a", "m", "e", " ", "o", "f", " ", " ", "B", "e", "n", "e", "f", "i", "c", "i", "a", "l", " ", "O", "w", "n", "e", "r">>, <<"S", "h", "a", "r", "e", "s">>>>,
     rows |-> << <<<<"S", "U", "B", "T", "O", "T", "A", "L">>, <<"5", "0", "0">>>> >>]

ContentChoices == {<<"<", "!", "d", "o", "c", "t", "y", "p", "e", " ", "H", "T", "M", "L", ">">>, <<"<", "?", "x", "m", "l", " ", "?", ">", "<", "/", "H", "T", "M", "L", ">">>, <<"<", "b", ">", "x", "<", "/", "b", ">">>, <<"a", " ", "<", " ", "b">>}

ReadHtmlChoices ==
    { [raises |-> TRUE, tables |-> <<>>],
      [raises |-> FALSE, tables |-> <<TableTotalsOnly>>],
      [raises |-> FALSE, tables |-> <<TableTotalsOnly, TableStandard>>],
      [raises |-> FALSE, tables |-> <<TableNoNumbers>>],
      [raises |-> FALSE, tables |-> <<TablePercentOnly, TableStandard>>] }

CandidateChoices ==
    { <<>>,
      <<Unparseable>>,
      <<Unparseable, Parsed(TableTotalsOnly), Parsed(TableStandard)>> }

TextChoices ==
    { [has_section |-> FALSE, matches |-> <<>>],
      [has_section |-> TRUE, matches |-> <<>>],
      [has_section |-> TRUE,
       matches |-> << [holder |-> <<"T", "h", "e", " ", "V", "a", "n", "g", "u", "a", "r", "d", " ", "G", "r", "o", "u", "p">>, shares |-> <<"1", ",", "2", "3", "4", ",", "5", "6", "7", " ">>, percent |-> <<"8", ".", "5", "%">>],
                      [holder |-> <<"T", "o", "t", "a", "l", " ", "a", "s", " ", "a", " ", "g", "r", "o", "u", "p">>, shares |-> <<>>, percent |-> <<"1", "0", "0", "%">>],
                      [holder |-> <<"A", "c", "m", "e", " ", "C", "a", "p", "i", "t", "a", "l">>, shares |-> <<>>, percent |-> <<"1", "5", "0", "%">>] >>] }

Documents ==
    { [content |-> c, read_html |-> r, html_candidates |-> h,
       xml_candidates |-> x, text |-> t] :
        c \in ContentChoices, r \in ReadHtmlChoices, h \in CandidateChoices,
        x \in CandidateChoices, t \in TextChoices }

ParseIdle ==
    /\ pa_pc = "off"
    /\ pa_doc = [content |-> <<>>, read_html |-> [raises |-> TRUE, tables |-> <<>>],
                 html_candidates |-> <<>>, xml_candidates |-> <<>>,
                 text |-> [has_section |-> FALSE, matches |-> <<>>]]
    /\ pa_ctype = "unknown"
    /\ pa_trace = <<>>
    /\ pa_result = None

ParseInit ==
    /\ pa_pc = "naive"
    /\ pa_doc \in Documents
    /\ pa_ctype = "unknown"
    /\ pa_trace = <<>>
    /\ pa_result = None

(***************************************************************************)
(* Institution-pattern extraction: _extract_holders_simple and             *)
(* _extract_institutional_holders_fast.  A filing content is given by what *)
(* the patterns find in it: a set of mentions [inst, pat, pos,             *)
(* shares_text, percent_text], one for each occurrence of pattern pat of   *)
(* institution inst in the content, pos its rank among the occurrences of  *)
(* that pattern, with group 1 of the share and of the percent pattern in   *)
(* the context of the occurrence (<<>> when the pattern finds none).       *)
(* A share count is a Python int of any size: it is kept as its decimal    *)
(* digits without leading zeros (<<>> is 0).                               *)
(***************************************************************************)
\* the institutions in dictionary order, with the number of patterns of each
SimpleInstitutions ==
    << [label |-> <<"V", "a", "n", "g", "u", "a", "r", "d", " ", "G", "r", "o", "u", "p">>, patterns |-> 3],
       [label |-> <<"B", "l", "a", "c", "k", "R", "o", "c", "k">>, patterns |-> 3],
       [label |-> <<"S", "t", "a", "t", "e", " ", "S", "t", "r", "e", "e", "t">>, patterns |-> 3],
       [label |-> <<"F", "i", "d", "e", "l", "i", "t", "y">>, patterns |-> 3],
       [label |-> <<"T", ".", " ", "R", "o", "w", "e", " ", "P", "r", "i", "c", "e">>, patterns |-> 2],
       [label |-> <<"B", "e", "r", "k", "s", "h", "i", "r", "e", " ", "H", "a", "t", "h", "a", "w", "a", "y">>, patterns |-> 1],
       [label |-> <<"J", "P", "M", "o", "r", "g", "a", "n">>, patterns |-> 2],
       [label |-> <<"C", "a", "p", "i", "t", "a", "l", " ", "G", "r", "o", "u", "p">>, patterns |-> 2] >>
MajorInstitutions ==
    << [label |-> <<"V", "a", "n", "g", "u", "a", "r", "d", " ", "G", "r", "o", "u", "p">>, patterns |-> 2],
       [label |-> <<"B", "l", "a", "c", "k", "R", "o", "c", "k">>, patterns |-> 2],
       [label |-> <<"S", "t", "a", "t", "e", " ", "S", "t", "r", "e", "e", "t">>, patterns |-> 2],
       [label |-> <<"F", "i", "d", "e", "l", "i", "t", "y">>, patterns |-> 2],
       [label |-> <<"T", ".", " ", "R", "o", "w", "e", " ", "P", "r", "i", "c", "e">>, patterns |-> 1],
       [label |-> <<"B", "e", "r", "k", "s", "h", "i", "r", "e", " ", "H", "a", "t", "h", "a", "w", "a", "y">>, patterns |-> 1],
       [label |-> <<"J", "P", "M", "o", "r", "g", "a", "n">>, patterns |-> 2],
       [label |-> <<"C", "a", "p", "i", "t", "a", "l", " ", "G", "r", "o", "u", "p">>, patterns |-> 2],
       [label |-> <<"W", "e", "l", "l", "i", "n", "g", "t", "o", "n", " ", "M", "a", "n", "a", "g", "e", "m", "e", "n", "t">>, patterns |-> 1],
       [label |-> <<"I", "n", "v", "e", "s", "c", "o">>, patterns |-> 1],
       [label |-> <<"N", "o", "r", "t", "h", "e", "r", "n", " ", "T", "r", "u", "s", "t">>, patterns |-> 1],
       [label |-> <<"B", "a", "n", "k", " ", "o", "f", " ", "N", "e", "w", " ", "Y", "o", "r", "k", " ", "M", "e", "l", "l", "o", "n">>, patterns |-> 2],
       [label |-> <<"G", "o", "l", "d", "m", "a", "n", " ", "S", "a", "c", "h", "s", " ", "A", "s", "s", "e", "t", " ", "M", "a", "n", "a", "g", "e", "m", "e", "n", "t">>, patterns |-> 2],
       [label |-> <<"M", "o", "r", "g", "a", "n", " ", "S", "t", "a", "n", "l", "e", "y", " ", "I", "n", "v", "e", "s", "t", "m", "e", "n", "t", " ", "M", "a", "n", "a", "g", "e", "m", "e", "n", "t">>, patterns |-> 1],
       [label |-> <<"D", "i", "m", "e", "n", "s", "i", "o", "n", "a", "l", " ", "F", "u", "n", "d", " ", "A", "d", "v", "i", "s", "o", "r", "s">>, patterns |-> 1] >>

\* int(text.replace(',', ''))
BigOfText(text) ==
    LET ds == RemoveChar(text, ",")
        nonzero == {k \in 1 .. Len(ds) : ds[k] # "0"}
    IN  IF nonzero = {} THEN <<>>
        ELSE SubSeq(ds, CHOOSE k \in nonzero : \A j \in nonzero : k <= j, Len(ds))

\* a <= b for two such ints
RECURSIVE DigitsLE(_, _)
DigitsLE(a, b) ==
    IF a = <<>> THEN TRUE
    ELSE IF Head(a) = Head(b) THEN DigitsLE(Tail(a), Tail(b))
    ELSE IndexIn(Digits, Head(a)) < IndexIn(Digits, Head(b))
BigLE(a, b) == Len(a) < Len(b) \/ (Len(a) = Len(b) /\ DigitsLE(a, b))

MIN_SHARES == <<"1", "0", "0", "0">>
MAX_SHARES == <<"1", "0", "0", "0", "0", "0", "0", "0", "0", "0", "0">>
\* 0.1 and 50.0 percent, in hundredths
MIN_PERCENT == 10
MAX_PERCENT == 5000

\* Group 1 of r'(\d{1,3}(?:,\d{3}){1,n})' on a comma-grouped number: its
\* first group and at most n more.
SharesGroup(n, text) ==
    LET commas == {k \in 1 .. Len(text) : text[k] = ","}
        kept == {k \in commas : Cardinality({c \in commas : c < k}) = n}
    IN  IF kept = {} THEN text ELSE SubSeq(text, 1, (CHOOSE k \in kept : TRUE) - 1)

\* Group 1 of r'(\d{1,2}\.?\d*)\s*%' on a number followed by a percent
\* sign: with a decimal point, only the last two digits before it belong to
\* the leftmost match.
FastPercentGroup(text) ==
    LET dot == IndexIn(text, ".")
    IN  IF dot > 3 THEN SubSeq(text, dot - 2, Len(text)) ELSE text

\* The share count and the percentage the simple scraper takes from a
\* context: no validation.
SimpleValues(m) ==
    [shares |-> IF m.shares_text # <<>>
                THEN Some(BigOfText(SharesGroup(3, m.shares_text))) ELSE Null,
     percent |-> IF m.percent_text # <<>> THEN FloatOf(m.percent_text) ELSE Null]

\* (mutant) the comprehensive scraper without its percentage check
FastValuesNoPercentCheck(m) ==
    LET shares == BigOfText(SharesGroup(4, m.shares_text))
    IN  [shares |-> IF m.shares_text # <<>> /\ BigLE(MIN_SHARES, shares)
                       /\ BigLE(shares, MAX_SHARES)
                    THEN Some(shares) ELSE Null,
         percent |-> IF m.percent_text # <<>>
                     THEN FloatOf(FastPercentGroup(m.percent_text)) ELSE Null]

\* The same for the comprehensive scraper: a share count outside
\* 1,000..10,000,000,000 and a percentage outside 0.1..50 become None.
FastValues(m) ==
    LET shares == BigOfText(SharesGroup(4, m.shares_text))
        percent == FloatOf(FastPercentGroup(m.percent_text))
    IN  [shares |-> IF m.shares_text # <<>> /\ BigLE(MIN_SHARES, shares)
                       /\ BigLE(shares, MAX_SHARES)
                    THEN Some(shares) ELSE Null,
         percent |-> IF m.percent_text # <<>> /\ percent # Null
                        /\ MIN_PERCENT <= percent[1] /\ percent[1] <= MAX_PERCENT
                     THEN percent ELSE Null]

ValuesOf(kind, m) == IF kind = "simple" THEN SimpleValues(m) ELSE FastValues(m)

\* `shares or percent`: None, 0 and 0.0 are falsy
Truthy(values) ==
    \/ values.shares # Null /\ values.shares[1] # <<>>
    \/ values.percent # Null /\ values.percent[1] # 0

\* matches[0] of list(re.finditer(pattern, content_lower))
FirstMatch(matches) == CHOOSE m \in matches : \A n \in matches : m.pos <= n.pos

\* (mutant) the inner loop without its `break`: every pattern that occurs
\* with a truthy value makes a record
RECURSIVE PatternLoopNoBreak(_, _, _, _, _, _, _)
PatternLoopNoBreak(kind, institutions, mentions, k, j, ticker, company_name) ==
    IF j > institutions[k].patterns THEN <<>>
    ELSE LET matches == {m \in mentions : m.inst = k /\ m.pat = j}
         IN  (IF matches # {} /\ Truthy(ValuesOf(kind, FirstMatch(matches)))
              THEN LET v == ValuesOf(kind, FirstMatch(matches))
                   IN  << [ticker |-> ticker,
                           company_name |-> company_name,
                           holder_name |-> institutions[k].label,
                           shares |-> v.shares,
                           percent_owned |-> v.percent,
                           filing_date |-> "today"] >>
              ELSE <<>>)
             \o PatternLoopNoBreak(kind, institutions, mentions, k, j + 1, ticker,
                                   company_name)

\* The inner loop over the patterns of institution k from pattern j on: the
\* first pattern that occurs and gives a truthy value at its first
\* occurrence makes the record and ends the loop.
RECURSIVE PatternLoop(_, _, _, _, _, _, _)
PatternLoop(kind, institutions, mentions, k, j, ticker, company_name) ==
    IF j > institutions[k].patterns THEN <<>>
    ELSE LET matches == {m \in mentions : m.inst = k /\ m.pat = j}
         IN  IF matches # {} /\ Truthy(ValuesOf(kind, FirstMatch(matches)))
             THEN LET v == ValuesOf(kind, FirstMatch(matches))
                  IN  << [ticker |-> ticker,
                          company_name |-> company_name,
                          holder_name |-> institutions[k].label,
                          shares |-> v.shares,
                          percent_owned |-> v.percent,
                          filing_date |-> "today"] >>
             ELSE PatternLoop(kind, institutions, mentions, k, j + 1, ticker, company_name)

RECURSIVE InstitutionLoop(_, _, _, _, _, _)
InstitutionLoop(kind, institutions, mentions, k, ticker, company_name) ==
    IF k > Len(institutions) THEN <<>>
    ELSE PatternLoop(kind, institutions, mentions, k, 1, ticker, company_name)
         \o InstitutionLoop(kind, institutions, mentions, k + 1, ticker, company_name)

\* _extract_holders_simple / _extract_institutional_holders_fast
ExtractHolders(kind, mentions, ticker, company_name) ==
    InstitutionLoop(kind,
                    IF kind = "simple" THEN SimpleInstitutions ELSE MajorInstitutions,
                    mentions, 1, ticker, company_name)

Occurrence(k, j, pos, c) ==
    [inst |-> k, pat |-> j, pos |-> pos,
     shares_text |-> c.shares_text, percent_text |-> c.percent_text]
Mention(k, j, c) == Occurrence(k, j, 1, c)

\* The contents of the model.
PatternContents ==
    { {},
      {Mention(1, 1, [shares_text |-> <<"1", ",", "2", "3", "4", ",", "5", "6", "7">>, percent_text |-> <<"8", ".", "5">>]),
       Mention(2, 1, [shares_text |-> <<>>, percent_text |-> <<"2", "5", "0">>])},
      {Mention(1, 1, [shares_text |-> <<"0", ",", "5", "0", "0">>, percent_text |-> <<"7", "5">>]),
       Mention(1, 2, [shares_text |-> <<"1", "0", ",", "0", "0", "0", ",", "0", "0", "0", ",", "0", "0", "1">>, percent_text |-> <<"1", "2", ".", "5">>])},
      {Mention(1, 1, [shares_text |-> <<"0", ",", "0", "0", "0">>, percent_text |-> <<"0">>]),
       Mention(2, 1, [shares_text |-> <<>>, percent_text |-> <<>>])},
      {Mention(1, 2, [shares_text |-> <<"1", ",", "0", "0", "0", ",", "0", "0", "0", ",", "0", "0", "0", ",", "0", "0", "0">>, percent_text |-> <<"0", ".", "1">>]),
       Mention(2, 1, [shares_text |-> <<>>, percent_text |-> <<"1", "2", "5", ".", "5">>])},
      {Mention(1, 1, [shares_text |-> <<"1", ",", "0", "0", "0">>, percent_text |-> <<"0", ".", "0", "5">>])} }

(***************************************************************************)
(* The batch runs: fetch_ownership_for_sp500 ("proxy"),                    *)
(* SimpleOwnershipScraper.scrape_top_companies ("simple") and              *)
(* ComprehensiveMarketScraper.scrape_full_market ("comprehensive").  A     *)
(* request is one step: its answer is chosen when the step is taken.       *)
(***************************************************************************)
MaxCompanies == 3
MaxLimit == 2

CompanyPool ==
    << [ticker |-> <<"A", "A", "P", "L">>, Security |-> "Apple Inc.", sector |-> "Information Technology"],
       [ticker |-> <<"B", "R", "K", "-", "B">>, Security |-> "Berkshire Hathaway", sector |-> "Financials"],
       [ticker |-> <<"M", "S", "F", "T">>, Security |-> "Microsoft", sector |-> "Information Technology"],
       [ticker |-> <<"X", "O", "M">>, Security |-> "ExxonMobil", sector |-> "Energy"] >>
\* the company list of the run, in list order
Companies == SubSeq(CompanyPool, 1, MaxCompanies)

CikOf(k) == <<"0", "0", "0", "0", "0", "0", "0", "1", "0">> \o <<Digits[k + 1]>>
FullIndex == {[ticker |-> Companies[k].ticker, cik |-> CikOf(k)] : k \in 1 .. MaxCompanies}
IndexChoices == {FullIndex, {e \in FullIndex : e.ticker # Companies[2].ticker}}

\* tick2cik.get(ticker): <<>> is None
Lookup(map, ticker) ==
    IF \E e \in map : e.ticker = ticker
    THEN (CHOOSE e \in map : e.ticker = ticker).cik
    ELSE <<>>

SEC_FILES_BASE == <<"h", "t", "t", "p", "s", ":", "/", "/", "w", "w", "w", ".", "s", "e", "c", ".", "g", "o", "v">>
\* f"{SEC_FILES_BASE}/Archives/edgar/data/{int(cik)}/{acc_nodash}/{primary_doc}"
FilingUrl(cik, acc_nodash, primary_doc) ==
    SEC_FILES_BASE \o <<"/", "A", "r", "c", "h", "i", "v", "e", "s", "/", "e", "d", "g", "a", "r", "/", "d", "a", "t", "a", "/">> \o BigOfText(cik) \o <<"/">> \o acc_nodash
        \o <<"/">> \o primary_doc

\* The loop of _get_latest_filing_url(_fast) from entry i on: the first
\* entry in array order whose form is 'DEF 14A' and whose primary document
\* is not empty; an index error ends the search with None.
RECURSIVE get_latest_filing_url(_, _, _)
get_latest_filing_url(cik, subs, i) ==
    IF i > Len(subs.form) THEN <<>>
    ELSE IF StrUpper(StrStrip(subs.form[i])) = FORM_DEF14A
    THEN IF i > Len(subs.accessionNumber) THEN <<>>
         ELSE LET primary_doc == IF i <= Len(subs.primaryDocument)
                                 THEN subs.primaryDocument[i] ELSE <<>>
              IN  IF primary_doc # <<>>
                  THEN FilingUrl(cik, RemoveChar(subs.accessionNumber[i], "-"), primary_doc)
                  ELSE get_latest_filing_url(cik, subs, i + 1)
    ELSE get_latest_filing_url(cik, subs, i + 1)

\* url = self._get_latest_filing_url(cik) of the pattern scrapers, on the
\* submissions document of the locator: the URL, or None.
LocPatternUrl ==
    /\ loc_pc = "find"
    /\ LET url == get_latest_filing_url(CikOf(1), loc_subs, 1)
       IN  loc_outcome' = IF url = <<>> THEN [state |-> "noUrl"]
                          ELSE [state |-> "url", url |-> url]
    /\ loc_pc' = "returned"
    /\ UNCHANGED <<loc_subs, loc_found>>
    /\ UNCHANGED notLoc

LocNext == LocFind \/ LocCheck \/ LocPatternUrl

\* The answers of the model to a submissions request.
Submissions(forms, dates, docs) ==
    [form |-> forms, filingDate |-> dates,
     accessionNumber |-> [k \in 1 .. Len(forms) |-> AccessionAt(k)],
     primaryDocument |-> docs]
DriverSubs ==
    { Submissions(<<<<"D", "E", "F", "A", "1", "4", "A">>>>, <<<<"2", "0", "2", "4", "-", "0", "6", "-", "1", "5">>>>, <<<<"p", "r", "o", "x", "y", ".", "h", "t", "m">>>>),
      Submissions(<<FORM_DEF14A, FORM_DEF14A>>, <<<<"2", "0", "2", "3", "-", "1", "1", "-", "3", "0">>, <<"2", "0", "2", "4", "-", "0", "6", "-", "1", "5">>>>, <<<<"p", "r", "o", "x", "y", ".", "h", "t", "m">>, <<>>>>),
      Submissions(<<<<" ", "d", "e", "f", " ", "1", "4", " ">>>>, <<<<"2", "0", "2", "4", "-", "0", "6", "-", "1", "5">>>>, <<<<"p", "r", "o", "x", "y", ".", "h", "t", "m">>>>),
      Submissions(<<FORM_DEF14A>>, <<>>, <<<<"p", "r", "o", "x", "y", ".", "h", "t", "m">>>>),
      Submissions(<<FORM_DEF14A>>, <<<<"2", "0", "2", "4", "-", "0", "6", "-", "1", "5">>>>, <<<<"p", "r", "o", "x", "y", ".", "h", "t", "m">>>>) }
SubsResponses ==
    {[error |-> TRUE, subs |-> Submissions(<<>>, <<>>, <<>>)]}
        \cup {[error |-> FALSE, subs |-> x] : x \in DriverSubs}

\* The filing documents of the model for the table/text scraper.
NoDoc ==
    [content |-> <<>>, read_html |-> [raises |-> TRUE, tables |-> <<>>],
     html_candidates |-> <<>>, xml_candidates |-> <<>>,
     text |-> [has_section |-> FALSE, matches |-> <<>>]]
DriverDocs ==
    { [NoDoc EXCEPT !.content = <<"<", "!", "d", "o", "c", "t", "y", "p", "e", " ", "H", "T", "M", "L", ">">>],
      [NoDoc EXCEPT !.content = <<"<", "!", "d", "o", "c", "t", "y", "p", "e", " ", "H", "T", "M", "L", ">">>,
                    !.read_html = [raises |-> FALSE, tables |-> <<TableTotalsOnly, TableStandard>>]],
      [NoDoc EXCEPT !.content = <<"<", "!", "d", "o", "c", "t", "y", "p", "e", " ", "H", "T", "M", "L", ">">>,
                    !.read_html = [raises |-> FALSE, tables |-> <<TableNoNumbers>>]],
      [NoDoc EXCEPT !.content = <<"<", "!", "d", "o", "c", "t", "y", "p", "e", " ", "H", "T", "M", "L", ">">>,
                    !.read_html = [raises |-> FALSE, tables |-> <<TablePercentOnly, TableStandard>>]],
      [NoDoc EXCEPT !.content = <<"<", "b", ">", "x", "<", "/", "b", ">">>,
                    !.xml_candidates = <<Unparseable, Parsed(TableTotalsOnly),
                                         Parsed(TableStandard)>>],
      [NoDoc EXCEPT !.content = <<"a", " ", "<", " ", "b">>,
                    !.text = CHOOSE t \in TextChoices : Len(t.matches) > 0] }
DocResponses ==
    {[error |-> TRUE, doc |-> NoDoc, mentions |-> {}]}
        \cup {[error |-> FALSE, doc |-> d, mentions |-> {}] : d \in DriverDocs}
ContentResponses ==
    {[error |-> TRUE, doc |-> NoDoc, mentions |-> {}]}
        \cup {[error |-> FALSE, doc |-> NoDoc, mentions |-> c] : c \in PatternContents}

NoCur == [cik |-> <<>>, filing_date |-> <<>>, url |-> <<>>, mentions |-> {}]

BatchIdle ==
    /\ b_kind = "off"
    /\ b_limit = 0
    /\ b_index = {}
    /\ b_pc = "off"
    /\ b_idx = 1
    /\ b_processed = 0
    /\ b_tick2cik = [built |-> FALSE, map |-> {}]
    /\ b_cur = NoCur
    /\ b_rows = <<>>
    /\ b_outcomes = <<>>
    /\ b_requests = <<>>
    /\ b_output = None
    /\ b_interrupted = FALSE
    /\ b_file = None

BatchInit ==
    /\ b_kind \in {"proxy", "simple", "comprehensive"}
    /\ b_limit \in IF b_kind = "proxy" THEN 1 .. MaxLimit ELSE {0}
    /\ b_index \in IndexChoices
    /\ b_pc = IF b_kind = "proxy" THEN "start" ELSE "loop"
    /\ b_idx = 1
    /\ b_processed = 0
    /\ b_tick2cik = [built |-> FALSE, map |-> {}]
    /\ b_cur = NoCur
    /\ b_rows = <<>>
    /\ b_outcomes = <<>>
    /\ b_requests = <<>>
    /\ b_output = None
    /\ b_interrupted = FALSE
    /\ b_file = None

Request(what, ok) == [company |-> b_idx, what |-> what, ok |-> ok]

\* (mutant) `break` in place of `continue`: a skip ends the loop
SkipEndsLoop(state) ==
    /\ b_outcomes' = Append(b_outcomes, state)
    /\ b_idx' = b_idx + 1
    /\ b_pc' = IF b_kind = "proxy" THEN "combine" ELSE "finish"
    /\ b_cur' = NoCur
    /\ UNCHANGED <<b_rows, b_processed>>

\* (mutant) a company that ends without a record is counted as processed
SkipCounts(state) ==
    /\ b_outcomes' = Append(b_outcomes, state)
    /\ b_idx' = b_idx + 1
    /\ b_pc' = "loop"
    /\ b_cur' = NoCur
    /\ b_processed' = b_processed + 1
    /\ UNCHANGED b_rows

\* The company in progress ends in `state` without a record: `continue`
\* in the proxy driver, `return []` in the pattern scrapers.
Skip(state) ==
    /\ b_outcomes' = Append(b_outcomes, state)
    /\ b_idx' = b_idx + 1
    /\ b_pc' = "loop"
    /\ b_cur' = NoCur
    /\ UNCHANGED <<b_rows, b_processed>>

\* tick2cik = get_ticker_cik_map(): the index, or an empty map when both
\* of its sources fail
DrvStart(ok) ==
    /\ b_kind = "proxy" /\ b_pc = "start"
    /\ b_tick2cik' = [built |-> TRUE, map |-> IF ok THEN b_index ELSE {}]
    /\ b_requests' = Append(b_requests, [company |-> 0, what |-> "index", ok |-> ok])
    /\ b_pc' = "loop"
    /\ UNCHANGED <<b_file, b_interrupted, b_kind, b_limit, b_index, b_idx, b_processed, b_cur, b_rows,
                   b_outcomes, b_output>>
    /\ UNCHANGED notBatch

\* (mutant) the loop stops one success late
LimitReachedLate(processed, limit) == processed > limit

\* `if processed >= limit: break`
LimitReached(processed, limit) == processed >= limit

\* The head of the loop: the end of the list or the limit ends the loop;
\* otherwise the filer id of the next company is looked up.
DrvLoop ==
    /\ b_kind = "proxy" /\ b_pc = "loop"
    /\ IF b_idx > Len(Companies) \/ LimitReached(b_processed, b_limit)
       THEN /\ b_pc' = "combine"
            /\ UNCHANGED <<b_idx, b_cur, b_outcomes, b_rows, b_processed>>
       ELSE LET cik == Lookup(b_tick2cik.map, StrUpper(Companies[b_idx].ticker))
            IN  IF cik = <<>> THEN Skip("skippedNoFiler")
                ELSE /\ b_cur' = [NoCur EXCEPT !.cik = cik]
                     /\ b_pc' = "submissions"
                     /\ UNCHANGED <<b_idx, b_outcomes, b_rows, b_processed>>
    /\ UNCHANGED <<b_file, b_interrupted, b_kind, b_limit, b_index, b_tick2cik, b_requests, b_output>>
    /\ UNCHANGED notBatch

\* find_latest_def14a raises an IndexError when a proxy entry has no filing
\* date (d = filing_dates[i]) or the chosen entry has no accession number.
SelectionRaises(subs) ==
    \/ \E i \in 1 .. Len(subs.form) :
           IsProxyForm(subs.form[i]) /\ i > Len(subs.filingDate)
    \/ ScanForms(subs.form, subs.filingDate, 1, 0, <<>>) > Len(subs.accessionNumber)

\* subs = get_company_submissions(cik) and found = find_latest_def14a(subs),
\* either of which may raise into the outer except; then the two checks
\* of found.
DrvSubmissions(resp) ==
    /\ b_kind = "proxy" /\ b_pc = "submissions"
    /\ b_requests' = Append(b_requests, Request("submissions", ~resp.error))
    /\ IF resp.error \/ SelectionRaises(resp.subs) THEN Skip("caughtError")
       ELSE LET filing == FilingOfFound(find_latest_def14a(resp.subs))
            IN  IF filing.state # "located" THEN Skip(filing.state)
                ELSE /\ b_cur' = [b_cur EXCEPT
                                    !.filing_date = filing.filing_date,
                                    !.url = FilingUrl(b_cur.cik, filing.acc_nodash,
                                                      filing.primary_doc)]
                     /\ b_pc' = "download"
                     /\ UNCHANGED <<b_idx, b_outcomes, b_rows, b_processed>>
    /\ UNCHANGED <<b_file, b_interrupted, b_kind, b_limit, b_index, b_tick2cik, b_output>>
    /\ UNCHANGED notBatch

\* response = get_response(url) inside its own try; the content then goes
\* to parse_proxy_content, whose cascade runs from its first strategy.
DrvDownload(resp) ==
    /\ b_kind = "proxy" /\ b_pc = "download"
    /\ b_requests' = Append(b_requests, Request("document", ~resp.error))
    /\ IF resp.error
       THEN /\ Skip("failedDownload")
            /\ UNCHANGED parseVars
       ELSE /\ b_pc' = "parse"
            /\ pa_pc' = "naive"
            /\ pa_doc' = resp.doc
            /\ pa_ctype' = "unknown" /\ pa_trace' = <<>> /\ pa_result' = None
            /\ UNCHANGED <<b_cur, b_idx, b_outcomes, b_rows, b_processed>>
    /\ UNCHANGED <<b_file, b_interrupted, b_kind, b_limit, b_index, b_tick2cik, b_output>>
    /\ UNCHANGED <<fetchVars, locVars, indexVars, callVars>>

\* df["ticker"] = ticker ... df["filing_url"] = url
Tag(rows, ticker, company, cur) ==
    [k \in 1 .. Len(rows) |->
        [holder_raw |-> rows[k].holder_raw,
         holder |-> rows[k].holder,
         shares |-> rows[k].shares,
         percent_class |-> rows[k].percent_class,
         ticker |-> ticker,
         company |-> company.Security,
         sector |-> company.sector,
         filing_date |-> cur.filing_date,
         filing_url |-> cur.url]]

\* df = parse_proxy_content(content), once the cascade has ended: no
\* table is a skip after the content is saved for debugging, and a failure
\* to write that file goes to the outer except; a table is tagged,
\* appended and counted.
DrvParse(write_ok) ==
    /\ b_kind = "proxy" /\ b_pc = "parse" /\ pa_pc = "done"
    /\ LET df == pa_result
       IN  IF df.none \/ df.rows = <<>>
           THEN Skip(IF write_ok THEN "skippedNoTable" ELSE "caughtError")
           ELSE /\ b_rows' = Append(b_rows, Tag(df.rows, StrUpper(Companies[b_idx].ticker),
                                                Companies[b_idx], b_cur))
                /\ b_processed' = b_processed + 1
                /\ b_outcomes' = Append(b_outcomes, "success")
                /\ b_idx' = b_idx + 1
                /\ b_pc' = "loop"
                /\ b_cur' = NoCur
    /\ pa_pc' = "off"
    /\ UNCHANGED <<pa_doc, pa_ctype, pa_trace, pa_result>>
    /\ UNCHANGED <<b_file, b_interrupted, b_kind, b_limit, b_index, b_tick2cik, b_requests, b_output>>
    /\ UNCHANGED <<fetchVars, locVars, indexVars, callVars>>

RECURSIVE Concat(_)
Concat(tables) == IF tables = <<>> THEN <<>> ELSE Head(tables) \o Concat(Tail(tables))

\* lambda x: x if (pd.notna(x) and 0 <= x <= 100) else None
NullOutOfRange(x) == IF x # Null /\ 0 <= x[1] /\ x[1] <= 10000 THEN x ELSE Null

\* After the loop: an empty table when nothing was parsed, else the
\* concatenation with the percentages outside 0..100 nulled.
DrvCombine ==
    /\ b_kind = "proxy" /\ b_pc = "combine"
    /\ b_output' = IF b_rows = <<>> THEN DataFrame(<<>>)
                   ELSE LET combined == Concat(b_rows)
                        IN  DataFrame([k \in 1 .. Len(combined) |->
                                [combined[k] EXCEPT
                                    !.percent_class = NullOutOfRange(@)]])
    /\ b_pc' = "done"
    /\ UNCHANGED <<b_file, b_interrupted, b_kind, b_limit, b_index, b_idx, b_processed, b_tick2cik, b_cur,
                   b_rows, b_outcomes, b_requests>>
    /\ UNCHANGED notBatch

\* The head of the loop of a pattern scraper.
PtLoop ==
    /\ b_kind \in {"simple", "comprehensive"} /\ b_pc = "loop"
    /\ b_pc' = IF b_idx > Len(Companies) THEN "finish" ELSE "cik"
    /\ UNCHANGED <<b_file, b_interrupted, b_kind, b_limit, b_index, b_idx, b_processed, b_tick2cik, b_cur,
                   b_rows, b_outcomes, b_requests, b_output>>
    /\ UNCHANGED notBatch

\* _get_cik fetches the index at every call; _get_cik_fast fetches it at
\* its first call and keeps what it got, an empty cache after a failure.
PtCik(ok) ==
    /\ b_kind \in {"simple", "comprehensive"} /\ b_pc = "cik"
    /\ LET fetch == b_kind = "simple" \/ ~b_tick2cik.built
           map == IF ~fetch THEN b_tick2cik.map
                  ELSE IF ok THEN b_index ELSE {}
           cik == Lookup(map, StrUpper(Companies[b_idx].ticker))
       IN  /\ b_requests' = IF fetch THEN Append(b_requests, Request("index", ok))
                            ELSE b_requests
           /\ b_tick2cik' = IF b_kind = "comprehensive"
                            THEN [built |-> TRUE, map |-> map] ELSE b_tick2cik
           /\ IF cik = <<>> THEN Skip("skippedNoFiler")
              ELSE /\ b_cur' = [NoCur EXCEPT !.cik = cik]
                   /\ b_pc' = "filing"
                   /\ UNCHANGED <<b_idx, b_outcomes, b_rows, b_processed>>
    /\ UNCHANGED <<b_file, b_interrupted, b_kind, b_limit, b_index, b_output>>
    /\ UNCHANGED notBatch

\* _get_latest_filing_url(_fast): any error gives None
PtFiling(resp) ==
    /\ b_kind \in {"simple", "comprehensive"} /\ b_pc = "filing"
    /\ b_requests' = Append(b_requests, Request("submissions", ~resp.error))
    /\ LET filing_url == IF resp.error THEN <<>>
                         ELSE get_latest_filing_url(b_cur.cik, resp.subs, 1)
       IN  IF filing_url = <<>> THEN Skip("skippedNoFiling")
           ELSE /\ b_cur' = [b_cur EXCEPT !.url = filing_url]
                /\ b_pc' = "download"
                /\ UNCHANGED <<b_idx, b_outcomes, b_rows, b_processed>>
    /\ UNCHANGED <<b_file, b_interrupted, b_kind, b_limit, b_index, b_tick2cik, b_output>>
    /\ UNCHANGED notBatch

\* _download_filing(_fast): any error gives None
PtDownload(resp) ==
    /\ b_kind \in {"simple", "comprehensive"} /\ b_pc = "download"
    /\ b_requests' = Append(b_requests, Request("document", ~resp.error))
    /\ IF resp.error THEN Skip("failedDownload")
       ELSE /\ b_cur' = [b_cur EXCEPT !.mentions = resp.mentions]
            /\ b_pc' = "extract"
            /\ UNCHANGED <<b_idx, b_outcomes, b_rows, b_processed>>
    /\ UNCHANGED <<b_file, b_interrupted, b_kind, b_limit, b_index, b_tick2cik, b_output>>
    /\ UNCHANGED notBatch

\* The extraction and the loop body after the call: `if holders:
\* all_data.extend(holders)`; the comprehensive scraper counts successes.
PtExtract ==
    /\ b_kind \in {"simple", "comprehensive"} /\ b_pc = "extract"
    /\ LET holders == ExtractHolders(b_kind, b_cur.mentions, Companies[b_idx].ticker,
                                     Companies[b_idx].Security)
       IN  IF holders = <<>> THEN Skip("skippedNoTable")
           ELSE /\ b_rows' = b_rows \o holders
                /\ b_processed' = IF b_kind = "comprehensive" THEN b_processed + 1
                                  ELSE b_processed
                /\ b_outcomes' = Append(b_outcomes, "success")
                /\ b_idx' = b_idx + 1
                /\ b_pc' = "loop"
                /\ b_cur' = NoCur
    /\ UNCHANGED <<b_file, b_interrupted, b_kind, b_limit, b_index, b_tick2cik, b_requests, b_output>>
    /\ UNCHANGED notBatch

\* pd.DataFrame(all_data), or an empty table
PtFinish ==
    /\ b_kind \in {"simple", "comprehensive"} /\ b_pc = "finish"
    /\ b_output' = DataFrame(b_rows)
    /\ b_pc' = "done"
    /\ UNCHANGED <<b_file, b_interrupted, b_kind, b_limit, b_index, b_idx, b_processed, b_tick2cik, b_cur,
                   b_rows, b_outcomes, b_requests>>
    /\ UNCHANGED notBatch

\* A KeyboardInterrupt during fetch_ownership_for_sp500: no handler of the
\* function catches it (all are `except Exception` or narrower), so it
\* reaches `except KeyboardInterrupt` of __main__, which exits with
\* status 0 before anything is written.
DrvInterrupt ==
    /\ b_kind = "proxy"
    /\ b_pc \in {"start", "loop", "submissions", "download", "parse", "combine"}
    /\ b_interrupted' = TRUE
    /\ b_pc' = "exit0"
    /\ pa_pc' = "off"
    /\ UNCHANGED <<pa_doc, pa_ctype, pa_trace, pa_result>>
    /\ UNCHANGED <<b_kind, b_limit, b_index, b_idx, b_processed, b_tick2cik, b_cur,
                   b_rows, b_outcomes, b_requests, b_output, b_file>>
    /\ UNCHANGED <<fetchVars, locVars, indexVars, callVars>>

\* A KeyboardInterrupt during a run of a pattern scraper.  Inside the
\* request of a helper (in_request) the bare `except:` of the helper takes
\* it for a failed request and the loop goes on; anywhere else nothing
\* catches it, `except Exception` of the per-company function and main()
\* included, and the process ends with the exception.
PtInterrupt(in_request) ==
    /\ b_kind \in {"simple", "comprehensive"}
    /\ b_pc \in {"loop", "cik", "filing", "download", "extract", "finish"}
    /\ b_interrupted' = TRUE
    /\ LET fetching == \/ b_pc \in {"filing", "download"}
                       \/ b_pc = "cik" /\ (b_kind = "simple" \/ ~b_tick2cik.built)
       IN  IF in_request /\ fetching
           THEN /\ b_requests' = Append(b_requests,
                                   Request(CASE b_pc = "cik" -> "index"
                                             [] b_pc = "filing" -> "submissions"
                                             [] OTHER -> "document", FALSE))
                /\ b_tick2cik' = IF b_pc = "cik" /\ b_kind = "comprehensive"
                                 THEN [built |-> TRUE, map |-> {}] ELSE b_tick2cik
                /\ Skip(CASE b_pc = "cik" -> "skippedNoFiler"
                          [] b_pc = "filing" -> "skippedNoFiling"
                          [] OTHER -> "failedDownload")
           ELSE /\ b_pc' = "uncaught"
                /\ UNCHANGED <<b_requests, b_tick2cik, b_idx, b_cur, b_outcomes,
                               b_rows, b_processed>>
    /\ UNCHANGED <<b_kind, b_limit, b_index, b_output, b_file>>
    /\ UNCHANGED notBatch

\* The entry point after the batch function returned: an empty table is
\* only reported, any other is written with to_csv; a failing write ends
\* __main__ of scrape_proxy_holders.py in `except Exception` with status 1
\* and the main() of a pattern scraper with the exception.
Main(write_ok) ==
    /\ b_pc = "done"
    /\ IF b_output.rows = <<>>
       THEN b_file' = b_file /\ b_pc' = "exit0"
       ELSE IF write_ok
       THEN b_file' = DataFrame(b_output.rows) /\ b_pc' = "exit0"
       ELSE b_file' = b_file /\ b_pc' = IF b_kind = "proxy" THEN "exit1" ELSE "uncaught"
    /\ UNCHANGED <<b_kind, b_limit, b_index, b_idx, b_processed, b_tick2cik, b_cur,
                   b_rows, b_outcomes, b_requests, b_output, b_interrupted>>
    /\ UNCHANGED notBatch

BatchNext ==
    \/ \E ok \in BOOLEAN : DrvStart(ok)
    \/ DrvLoop
    \/ \E resp \in SubsResponses : DrvSubmissions(resp)
    \/ \E resp \in DocResponses : DrvDownload(resp)
    \/ \E write_ok \in BOOLEAN : DrvParse(write_ok)
    \/ DrvCombine
    \/ PtLoop
    \/ \E ok \in BOOLEAN : PtCik(ok)
    \/ \E resp \in SubsResponses : PtFiling(resp)
    \/ \E resp \in ContentResponses : PtDownload(resp)
    \/ PtExtract
    \/ PtFinish
    \/ \E write_ok \in BOOLEAN : Main(write_ok)
    \/ DrvInterrupt
    \/ \E in_request \in BOOLEAN : PtInterrupt(in_request)
    \/ PaNaive \/ PaDetect \/ PaHtml \/ PaXml \/ PaText

(***************************************************************************)
(* The ticker index: get_ticker_cik_map and the lookup of the driver.      *)
(***************************************************************************)
\* str(x).zfill(width) for a number without sign
ZFill(s, width) ==
    IF Len(s) >= width THEN s ELSE [k \in 1 .. width - Len(s) |-> "0"] \o s

\* the ticker of company k as the index documents spell it
ServerTicker(k) ==
    IF k = 1 THEN StrLower(Companies[k].ticker) \o <<" ">> ELSE Companies[k].ticker

\* company_tickers.json: records with "ticker" and the number "cik_str"
PrimaryRecord(k) == [ticker |-> Some(ServerTicker(k)), cik_str |-> Some(BigOfText(CikOf(k)))]
\* company_tickers_exchange.json: records with "ticker" and "cik" or "cik_str"
FallbackRecord(k) ==
    [ticker |-> Some(ServerTicker(k)),
     cik |-> IF k = 2 THEN Null ELSE Some(BigOfText(CikOf(k))),
     cik_str |-> IF k = 2 THEN Some(BigOfText(CikOf(k))) ELSE Null]
\* a record without its "ticker" key
PrimaryNoTicker == [ticker |-> Null, cik_str |-> Some(<<"7">>)]
FallbackNoTicker == [ticker |-> Null, cik |-> Some(<<"7">>), cik_str |-> Null]

\* What a request of an index gives: get_json raises (the request failed
\* after its retries, or the body is no JSON), or the parsed document.
PrimaryAnswers ==
    {[raises |-> e, data |-> {}] : e \in {"RequestException", "ValueError"}}
        \cup {[raises |-> "none", data |-> d] :
                 d \in SUBSET ({PrimaryRecord(k) : k \in 1 .. MaxCompanies}
                                   \cup {PrimaryNoTicker})}
FallbackAnswers ==
    {[raises |-> e, data |-> {}] : e \in {"RequestException", "ValueError"}}
        \cup {[raises |-> "none", data |-> d] :
                 d \in SUBSET ({FallbackRecord(k) : k \in 1 .. MaxCompanies}
                                   \cup {FallbackNoTicker})}

NoLookup == [company |-> 0, state |-> "none"]

IndexIdle ==
    /\ ix_pc = "off"
    /\ ix_primary = [raises |-> "none", data |-> {}]
    /\ ix_fallback = [raises |-> "none", data |-> {}]
    /\ ix_requests = <<>>
    /\ ix_out = {}
    /\ ix_lookup = NoLookup

IndexInit ==
    /\ ix_pc = "primary"
    /\ ix_primary \in PrimaryAnswers
    /\ ix_fallback \in FallbackAnswers
    /\ ix_requests = <<>>
    /\ ix_out = {}
    /\ ix_lookup = NoLookup

\* the loop over data.items(): rec["ticker"] of a record without the key
\* raises KeyError
PrimaryParse(data) ==
    IF \E rec \in data : rec.ticker = Null \/ rec.cik_str = Null
    THEN [raises |-> "KeyError", out |-> {}]
    ELSE [raises |-> "none",
          out |-> {[ticker |-> StrStrip(StrUpper(rec.ticker[1])),
                    cik |-> ZFill(rec.cik_str[1], 10)] : rec \in data}]

\* the loop over the fallback's records: rec.get("cik") or rec.get("cik_str")
FallbackParse(data) ==
    IF \E rec \in data : rec.ticker = Null
    THEN [raises |-> "KeyError", out |-> {}]
    ELSE [raises |-> "none",
          out |-> {[ticker |-> StrStrip(StrUpper(rec.ticker[1])),
                    cik |-> ZFill(IF rec.cik # Null THEN rec.cik[1]
                                  ELSE IF rec.cik_str # Null THEN rec.cik_str[1]
                                  ELSE <<"N", "o", "n", "e">>, 10)] : rec \in data}]

\* (mutant) a handler for request errors only
ExceptRequestException(e) == e = "RequestException"

\* `except Exception`: every error of the request and of the parsing
ExceptException(e) == e \in {"RequestException", "ValueError", "KeyError"}

\* The first try block: the primary mapping is returned only `if out`.
IxPrimary ==
    /\ ix_pc = "primary"
    /\ ix_requests' = Append(ix_requests, "primary")
    /\ LET r == IF ix_primary.raises # "none"
                THEN [raises |-> ix_primary.raises, out |-> {}]
                ELSE PrimaryParse(ix_primary.data)
       IN  IF r.raises = "none"
           THEN IF r.out # {}
                THEN ix_out' = r.out /\ ix_pc' = "returned"
                ELSE ix_pc' = "fallback" /\ UNCHANGED ix_out
           ELSE /\ ix_pc' = IF ExceptException(r.raises) THEN "fallback" ELSE "raised"
                /\ UNCHANGED ix_out
    /\ UNCHANGED <<ix_primary, ix_fallback, ix_lookup>>
    /\ UNCHANGED notIndex

\* The second try block: the fallback mapping is returned as it is, and
\* an error gives {}.
IxFallback ==
    /\ ix_pc = "fallback"
    /\ ix_requests' = Append(ix_requests, "fallback")
    /\ LET r == IF ix_fallback.raises # "none"
                THEN [raises |-> ix_fallback.raises, out |-> {}]
                ELSE FallbackParse(ix_fallback.data)
       IN  IF r.raises = "none"
           THEN ix_out' = r.out /\ ix_pc' = "returned"
           ELSE /\ ix_pc' = IF ExceptException(r.raises) THEN "returned" ELSE "raised"
                /\ ix_out' = {}
    /\ UNCHANGED <<ix_primary, ix_fallback, ix_lookup>>
    /\ UNCHANGED notIndex

\* The driver with company k: cik = tick2cik.get(ticker); `if not cik:
\* continue`.
IxLookup(k) ==
    /\ ix_pc = "returned"
    /\ LET cik == Lookup(ix_out, StrUpper(Companies[k].ticker))
       IN  ix_lookup' = [company |-> k,
                         state |-> IF cik = <<>> THEN "skippedNoFiler" ELSE "lookedUp"]
    /\ UNCHANGED <<ix_pc, ix_primary, ix_fallback, ix_requests, ix_out>>
    /\ UNCHANGED notIndex

IndexNext ==
    \/ IxPrimary
    \/ IxFallback
    \/ \E k \in 1 .. MaxCompanies : IxLookup(k)

(***************************************************************************)
(* Single calls of the pure helpers: the arguments of the model.           *)
(***************************************************************************)
NameCores ==
    { <<"T", "h", "e", " ", "V", "a", "n", "g", "u", "a", "r", "d", " ", "G", "r", "o", "u", "p", ",", " ", "I", "n", "c", ".">>,
      <<"T", "H", "E", " ", "V", "A", "N", "G", "U", "A", "R", "D", " ", "G", "R", "O", "U", "P">>,
      <<"V", "a", "n", "g", "u", "a", "r", "d", " ", "G", "r", "o", "u", "p">>,
      <<"x", "t", "h", "e", " ", "v", "a", "n", "g", "u", "a", "r", "d", " ", "g", "r", "o", "u", "p">>,
      <<"B", "l", "a", "c", "k", "R", "o", "c", "k", ",", " ", "I", "n", "c", ".">>,
      <<"B", "l", "a", "c", "k", "r", "o", "c", "k", " ", "I", "n", "c">>,
      <<"B", "l", "a", "c", "k", "R", "o", "c", "k">>,
      <<"S", "t", "a", "t", "e", " ", "S", "t", "r", "e", "e", "t", " ", "C", "o", "r", "p">>,
      <<"S", "t", "a", "t", "e", " ", " ", " ", "S", "t", "r", "e", "e", "t">>,
      <<"F", "i", "d", "e", "l", "i", "t", "y", " ", "M", "a", "n", "a", "g", "e", "m", "e", "n", "t", " ", "&", " ", "R", "e", "s", "e", "a", "r", "c", "h">>,
      <<"F", "M", "R", " ", "(", "F", "i", "d", "e", "l", "i", "t", "y", ")">>,
      <<"T", ".", " ", "R", "o", "w", "e", " ", "P", "r", "i", "c", "e", " ", "A", "s", "s", "o", "c", "i", "a", "t", "e", "s">>,
      <<"T", " ", "R", "o", "w", "e", " ", "P", "r", "i", "c", "e">>,
      <<"T", ".", " ", "R", "o", "w", "e", " ", "P", "r", "i", "c", "e">>,
      <<"B", "e", "r", "k", "s", "h", "i", "r", "e", " ", "H", "a", "t", "h", "a", "w", "a", "y", " ", "I", "n", "c">>,
      <<"B", "e", "r", "k", "s", "h", "i", "r", "e", " ", "H", "a", "t", "h", "a", "w", "a", "y">>,
      <<"F", "i", "d", "e", "l", "i", "t", "y", " ", "a", "n", "d", " ", "T", "h", "e", " ", "V", "a", "n", "g", "u", "a", "r", "d", " ", "G", "r", "o", "u", "p">>,
      <<"S", "t", "a", "t", "e", " ", "S", "t", "r", "e", "e", "t", " ", "a", "n", "d", " ", "B", "l", "a", "c", "k", "R", "o", "c", "k", ",", " ", "I", "n", "c", ".">>,
      <<"B", "e", "r", "k", "s", "h", "i", "r", "e", " ", "H", "a", "t", "h", "a", "w", "a", "y", " ", "/", " ", "T", ".", " ", "R", "o", "w", "e", " ", "P", "r", "i", "c", "e">>,
      <<"A", "c", "m", "e", " ", " ", "\t", " ", "C", "a", "p", "i", "t", "a", "l">>,
      <<"A">>,
      <<>> }
NamePrefixes == {<<>>, <<" ", " ">>, <<"T", "r", "u", "s", "t", " ", "o", "f", " ">>}
NameSuffixes == {<<>>, <<" ", "\n">>, <<" ", " ", " ", "L", "L", "C">>}
\* the holder names of the model
HolderNames == {p \o c \o x : p \in NamePrefixes, c \in NameCores, x \in NameSuffixes}

\* the header rows of the model
HeaderRows ==
    { <<<<"N", "a", "m", "e", " ", "o", "f", " ", " ", "B", "e", "n", "e", "f", "i", "c", "i", "a", "l", " ", "O", "w", "n", "e", "r">>, <<"S", "h", "a", "r", "e", "s">>, <<"P", "e", "r", "c", "e", "n", "t", " ", "o", "f", " ", "C", "l", "a", "s", "s">>>>,
      <<<<"B", "e", "n", "e", "f", "i", "c", "i", "a", "l", " ", "H", "o", "l", "d", "e", "r">>, <<"A", "m", "o", "u", "n", "t">>, <<"%">>>>,
      <<<<"N", "a", "m", "e">>, <<"S", "h", "a", "r", "e", "s", " ", "B", "e", "n", "e", "f", "i", "c", "i", "a", "l", "l", "y", " ", "O", "w", "n", "e", "d">>, <<"P", "e", "r", "c", "e", "n", "t">>>>,
      <<<<"H", "o", "l", "d", "e", "r">>, <<"N", "o", "t", "e", "s">>>>,
      <<<<"C", "l", "a", "s", "s">>, <<"O", "w", "n", "e", "r">>, <<"A", "m", "o", "u", "n", "t">>>>,
      <<<<"C", "l", "a", "s", "s">>, <<"S", "t", "o", "c", "k", "h", "o", "l", "d", "e", "r">>, <<"N", "u", "m", "b", "e", "r">>>>,
      <<<<"%", " ", "o", "f", " ", "C", "l", "a", "s", "s">>, <<"N", "a", "m", "e">>, <<"P", "e", "r", "c", "e", "n", "t">>>>,
      <<<<"S", "h", "a", "r", "e", "h", "o", "l", "d", "e", "r">>, <<"A", "m", "o", "u", "n", "t">>, <<"P", "e", "r", "c", "e", "n", "t">>>> }
\* the table rows of the model, three cells each; NaN is a missing cell
MaxRows == 2
RowPool ==
    { <<<<"T", "h", "e", " ", "V", "a", "n", "g", "u", "a", "r", "d", " ", "G", "r", "o", "u", "p", ",", " ", "I", "n", "c", ".">>, <<"1", ",", "2", "3", "4", ",", "5", "6", "7">>, <<"8", ".", "5", "%">>>>,
      <<<<"T", "o", "t", "a", "l">>, <<"1", ",", "2", "3", "4", ",", "5", "6", "7">>, <<"8", ".", "5", "%">>>>,
      <<NaN, <<"1", "0", "0">>, <<"5", "%">>>>,
      <<<<"A">>, <<"n", "/", "a">>, NaN>>,
      <<<<"A", "c", "m", "e", " ", "C", "a", "p", "i", "t", "a", "l">>, NaN, <<"1", "5", "0", "%">>>>,
      <<<<" ", " ">>, <<"1", "2">>, <<"1", "2">>>> }
\* the tables of the model: a header row and up to MaxRows rows of its width
Tables ==
    UNION {{[columns |-> h, rows |-> [k \in 1 .. n |-> SubSeq(r[k], 1, Len(h))]] :
               r \in [1 .. n -> RowPool]} : h \in HeaderRows, n \in 0 .. MaxRows}

\* the contents of the model: one or two pieces of markup or text
ContentPieces ==
    { <<"<", "!", "D", "O", "C", "T", "Y", "P", "E", " ", "h", "t", "m", "l", ">">>,
      <<"<", "!", "d", "o", "c", "t", "y", "p", "e", " ", "H", "T", "M", "L", " ", "P", "U", "B", "L", "I", "C", ">">>,
      <<"<", "!", "D", "O", "C", "T", "Y", "P", "E", "h", "t", "m", "l", ">">>,
      <<"<", "/", "H", "T", "M", "L", ">">>,
      <<"<", "?", "x", "m", "l", " ", "v", "e", "r", "s", "i", "o", "n", "=", "'", "1", ".", "0", "'", "?", ">">>,
      <<"<", "?", "X", "M", "L", "?", ">">>,
      <<"<", "/", "o", "w", "n", "e", "r", "s", "h", "i", "p", "D", "o", "c", "u", "m", "e", "n", "t", ">">>,
      <<"<", "/", "h", "1", ">">>,
      <<"<", "/", "i", "x", ":", "n", "o", "n", "N", "u", "m", "e", "r", "i", "c", ">">>,
      <<"<", "/", ">">>,
      <<"<", "t", "a", "b", "l", "e", ">">>,
      <<"B", "e", "n", "e", "f", "i", "c", "i", "a", "l", " ", "o", "w", "n", "e", "r", "s">> }
Contents == ContentPieces \cup {a \o b : a \in ContentPieces, b \in ContentPieces}

\* The Symbol column of the constituent table, as the page may spell it.
Symbols ==
    { <<"B", "R", "K", ".", "B">>,
      <<"b", "r", "k", ".", "b">>,
      <<" ", "B", "R", "K", ".", "B", " ">>,
      <<"B", "f", ".", "B">>,
      <<"A", "A", "P", "L">>,
      <<" ", "a", "a", "p", "l">>,
      <<"M", "S", "F", "T", " ">>,
      <<"m", "s", "f", "t">>,
      <<"A", ".", "b", ".", "C">>,
      <<".", " ">>,
      <<"X", "O", "M">> }

\* (mutant) the column is only stripped
sp500_ticker_stripped(symbol) == StrStrip(symbol)

\* get_sp500_tickers: df["ticker"].str.replace(".", "-", regex=False).str.strip()
sp500_ticker(symbol) == StrStrip(ReplaceChar(symbol, ".", "-"))

\* the mapping get_ticker_cik_map builds from the full primary index
FullTick2Cik == PrimaryParse({PrimaryRecord(k) : k \in 1 .. MaxCompanies}).out

\* The head of the driver's loop body for a row of the constituent table:
\* ticker = row["ticker"].upper(); cik = tick2cik.get(ticker)
TickerAndCik(symbol) ==
    LET ticker == StrUpper(sp500_ticker(symbol))
    IN  [ticker |-> ticker, cik |-> Lookup(FullTick2Cik, ticker)]

\* Contents for single calls of the extraction: those of the batch runs,
\* and contents in which a pattern occurs more than once.
NoNumbers == [shares_text |-> <<>>, percent_text |-> <<>>]
ZeroPercent == [shares_text |-> <<>>, percent_text |-> <<"0">>]
SmallHolding == [shares_text |-> <<"2", ",", "5", "0", "0">>, percent_text |-> <<"0", ".", "4">>]
LargeHolding == [shares_text |-> <<"7", ",", "6", "5", "4", ",", "3", "2", "1">>, percent_text |-> <<"9", ".", "2", "5">>]
ExtractContents ==
    PatternContents \cup
    { {Occurrence(1, 1, 1, NoNumbers), Occurrence(1, 1, 2, SmallHolding),
       Occurrence(1, 2, 1, LargeHolding)},
      {Occurrence(1, 1, 2, LargeHolding), Occurrence(1, 1, 1, SmallHolding),
       Occurrence(1, 2, 1, LargeHolding), Occurrence(2, 2, 1, SmallHolding)},
      {Occurrence(1, 1, 1, ZeroPercent), Occurrence(1, 2, 1, SmallHolding),
       Occurrence(2, 1, 1, NoNumbers), Occurrence(2, 1, 2, LargeHolding)},
      {Occurrence(6, 1, 1, LargeHolding), Occurrence(6, 1, 2, SmallHolding),
       Occurrence(8, 2, 1, SmallHolding), Occurrence(8, 1, 1, NoNumbers)} }

CallIdle ==
    /\ call_fn = "none"
    /\ call_arg = <<>>
    /\ call_ret = <<>>
    /\ call_pc = "off"

CallInit ==
    /\ call_pc = "called"
    /\ call_ret = <<>>
    /\ \/ call_fn = "clean_holder_name" /\ call_arg \in HolderNames
       \/ call_fn = "detect_ownership_columns" /\ call_arg \in HeaderRows
       \/ call_fn = "process_ownership_table" /\ call_arg \in Tables
       \/ call_fn = "detect_content_type" /\ call_arg \in Contents
       \/ call_fn = "ticker" /\ call_arg \in Symbols
       \/ /\ call_fn = "extract_holders"
          /\ call_arg \in [kind : {"simple", "comprehensive"}, mentions : ExtractContents]

CallClean ==
    /\ call_fn = "clean_holder_name" /\ call_pc = "called"
    /\ call_ret' = clean_holder_name(call_arg)
    /\ call_pc' = "returned"
    /\ UNCHANGED <<call_fn, call_arg>>
    /\ UNCHANGED notCall

\* clean_holder_name called with what it returned
CallCleanAgain ==
    /\ call_fn = "clean_holder_name" /\ call_pc = "returned"
    /\ call_arg' = call_ret
    /\ call_ret' = clean_holder_name(call_ret)
    /\ call_pc' = "again"
    /\ UNCHANGED call_fn
    /\ UNCHANGED notCall

\* detect_ownership_columns(df) for a table with the header call_arg
CallDetectColumns ==
    /\ call_fn = "detect_ownership_columns" /\ call_pc = "called"
    /\ call_ret' = detect_ownership_columns(call_arg)
    /\ call_pc' = "returned"
    /\ UNCHANGED <<call_fn, call_arg>>
    /\ UNCHANGED notCall

CallProcessTable ==
    /\ call_fn = "process_ownership_table" /\ call_pc = "called"
    /\ call_ret' = process_ownership_table(call_arg)
    /\ call_pc' = "returned"
    /\ UNCHANGED <<call_fn, call_arg>>
    /\ UNCHANGED notCall

CallDetectType ==
    /\ call_fn = "detect_content_type" /\ call_pc = "called"
    /\ call_ret' = detect_content_type(call_arg)
    /\ call_pc' = "returned"
    /\ UNCHANGED <<call_fn, call_arg>>
    /\ UNCHANGED notCall

CallTicker ==
    /\ call_fn = "ticker" /\ call_pc = "called"
    /\ call_ret' = TickerAndCik(call_arg)
    /\ call_pc' = "returned"
    /\ UNCHANGED <<call_fn, call_arg>>
    /\ UNCHANGED notCall

\* the ticker that came out, put through the same steps once more
CallTickerAgain ==
    /\ call_fn = "ticker" /\ call_pc = "returned"
    /\ call_arg' = call_ret.ticker
    /\ call_ret' = TickerAndCik(call_ret.ticker)
    /\ call_pc' = "again"
    /\ UNCHANGED call_fn
    /\ UNCHANGED notCall

\* holders = self._extract_holders_simple(content, ticker, company_name), or
\* _extract_institutional_holders_fast, for the first company of the list
CallExtractHolders ==
    /\ call_fn = "extract_holders" /\ call_pc = "called"
    /\ call_ret' = ExtractHolders(call_arg.kind, call_arg.mentions, Companies[1].ticker,
                                  Companies[1].Security)
    /\ call_pc' = "returned"
    /\ UNCHANGED <<call_fn, call_arg>>
    /\ UNCHANGED notCall

(***************************************************************************)
(* The section search on a parsed HTML document.  The document is a tree   *)
(* of elements numbered in document order: parent[n] is the parent of      *)
(* element n (0 for the root, the BeautifulSoup object), label[n] says     *)
(* what the element is: "heading" is a h1-h4, div or span whose string     *)
(* matches the ownership pattern, "section" carries id="securityOwnership",*)
(* the "table..." labels are table elements, "plain" is anything else.     *)
(***************************************************************************)
\* `for _ in range(3)`
SECTION_LEVELS == 3

TableLabels == {"tableA", "tableB", "tableEmpty", "tableBad"}
ElementLabels == {"plain", "heading", "section"} \cup TableLabels

\* the tables of the documents: two with a holder row, one with a total only
SectionTableA ==
    [columns |-> <<<<"H", "o", "l", "d", "e", "r">>, <<"S", "h", "a", "r", "e", "s">>>>,
     rows |-> << <<<<"A", "c", "m", "e">>, <<"1", ",", "0", "0", "0">>>> >>]
SectionTableB ==
    [columns |-> <<<<"H", "o", "l", "d", "e", "r">>, <<"S", "h", "a", "r", "e", "s">>>>,
     rows |-> << <<<<"Z", "e", "n", "i", "t", "h">>, <<"2", ",", "0", "0", "0">>>> >>]
SectionTableEmpty ==
    [columns |-> <<<<"H", "o", "l", "d", "e", "r">>, <<"S", "h", "a", "r", "e", "s">>>>,
     rows |-> << <<<<"T", "o", "t", "a", "l">>, <<"3", ",", "0", "0", "0">>>> >>]

\* pd.read_html(str(table))[0] for a table element: it raises on tableBad
TableCandidate(label) ==
    CASE label = "tableA" -> Parsed(SectionTableA)
      [] label = "tableB" -> Parsed(SectionTableB)
      [] label = "tableEmpty" -> Parsed(SectionTableEmpty)
      [] OTHER -> Unparseable

\* element n lies inside element a
RECURSIVE IsInside(_, _, _)
IsInside(dom, n, a) ==
    LET up == dom.parent[n]
    IN  up # 0 /\ (up = a \/ IsInside(dom, up, a))

Elements(dom) == [n \in 1 .. Len(dom.parent) |-> n]

\* soup.find_all([...], string=re.compile(...)) in document order, then the
\* element soup.find(id=section_id) gives, when there is one
ownership_headers(dom) ==
    LET with_id == {n \in 1 .. Len(dom.parent) : dom.label[n] = "section"}
    IN  SelectSeq(Elements(dom), LAMBDA n : dom.label[n] = "heading")
        \o (IF with_id = {} THEN <<>>
            ELSE <<CHOOSE n \in with_id : \A m \in with_id : n <= m>>)

\* section.find_all('table'): the tables inside the section, in document order
find_all_tables(dom, section) ==
    SelectSeq(Elements(dom),
              LAMBDA t : dom.label[t] \in TableLabels /\ IsInside(dom, t, section))

\* (mutant) the walk up goes on to the root
RECURSIVE LevelLoopToRoot(_, _, _)
LevelLoopToRoot(dom, section, left) ==
    LET up == dom.parent[section]
    IN  IF up = 0 THEN <<>>
        ELSE find_all_tables(dom, up) \o LevelLoopToRoot(dom, up, left - 1)

\* `for _ in range(3): section = section.parent ...; if not section: break;
\* tables = section.find_all('table')`: the tables tried for one header, in
\* the order they are tried, `left` levels still to go
RECURSIVE LevelLoop(_, _, _)
LevelLoop(dom, section, left) ==
    IF left = 0 THEN <<>>
    ELSE LET up == dom.parent[section]
         IN  IF up = 0 THEN <<>>
             ELSE find_all_tables(dom, up) \o LevelLoop(dom, up, left - 1)

\* `for header in ownership_headers`
RECURSIVE HeaderLoop(_, _)
HeaderLoop(dom, headers) ==
    IF headers = <<>> THEN <<>>
    ELSE LevelLoop(dom, Head(headers), SECTION_LEVELS) \o HeaderLoop(dom, Tail(headers))

\* the tables the search tries on the document, in order
HtmlCandidates(dom) ==
    LET tried == HeaderLoop(dom, ownership_headers(dom))
    IN  [k \in 1 .. Len(tried) |-> TableCandidate(dom.label[tried[k]])]

\* The documents of the model: three shapes of six elements, every
\* labelling of the elements below the root.
DomShapes ==
    { <<0, 1, 2, 3, 4, 1>>,
      <<0, 1, 2, 2, 1, 5>>,
      <<0, 1, 2, 3, 3, 2>> }
DomsOfShape(shape) ==
    { [parent |-> shape,
       label |-> [n \in 1 .. Len(shape) |-> IF n = 1 THEN "plain" ELSE f[n]]] :
         f \in [2 .. Len(shape) -> ElementLabels] }

SectionInit ==
    /\ call_pc = "called"
    /\ call_ret = <<>>
    /\ call_fn = "find_ownership_table_in_html"
    /\ \E shape \in DomShapes : call_arg \in DomsOfShape(shape)

\* find_ownership_table_in_html(html) for a content that parses to call_arg
CallFindInHtml ==
    /\ call_fn = "find_ownership_table_in_html" /\ call_pc = "called"
    /\ call_ret' = find_ownership_table_in_html(
                       [NoDoc EXCEPT !.html_candidates = HtmlCandidates(call_arg)])
    /\ call_pc' = "returned"
    /\ UNCHANGED <<call_fn, call_arg>>
    /\ UNCHANGED notCall

SectionNext == CallFindInHtml

CallNext ==
    \/ CallExtractHolders
    \/ CallTicker
    \/ CallTickerAgain
    \/ CallClean
    \/ CallCleanAgain
    \/ CallDetectColumns
    \/ CallProcessTable
    \/ CallDetectType

(***************************************************************************)
(* Specifications.                                                         *)
(***************************************************************************)
FetchSpecInit == FetchInit /\ LocIdle /\ ParseIdle /\ BatchIdle /\ IndexIdle /\ CallIdle

SpecFetch == FetchSpecInit /\ [][FetchNext]_vars

LocateSpecInit == LocInit /\ FetchInit /\ ParseIdle /\ BatchIdle /\ IndexIdle /\ CallIdle

SpecLocate == LocateSpecInit /\ [][LocNext]_vars

ParseSpecInit == ParseInit /\ FetchInit /\ LocIdle /\ BatchIdle /\ IndexIdle /\ CallIdle

SpecParse == ParseSpecInit /\ [][ParseNext]_vars

BatchSpecInit == BatchInit /\ FetchInit /\ LocIdle /\ ParseIdle /\ IndexIdle /\ CallIdle

SpecBatch == BatchSpecInit /\ [][BatchNext]_vars

IndexSpecInit ==
    IndexInit /\ FetchInit /\ LocIdle /\ ParseIdle /\ BatchIdle /\ CallIdle

SpecIndex == IndexSpecInit /\ [][IndexNext]_vars

CallSpecInit ==
    CallInit /\ FetchInit /\ LocIdle /\ ParseIdle /\ BatchIdle /\ IndexIdle

SpecCall == CallSpecInit /\ [][CallNext]_vars

SectionSpecInit ==
    SectionInit /\ FetchInit /\ LocIdle /\ ParseIdle /\ BatchIdle /\ IndexIdle

SpecSection == SectionSpecInit /\ [][SectionNext]_vars

(***************************************************************************)
(* Claims about the fetch layer.                                           *)
(***************************************************************************)
RequestEvents == {k \in 1 .. Len(gr_events) : gr_events[k].kind = "request"}
AllAttemptsFailed ==
    \A k \in RequestEvents : AttemptFails(gr_events[k].outcome)

\* C1: when every attempt of get_response(url, retries=n, backoff=b) has
\* failed and the call is over, exactly n+1 requests were made, failed
\* attempt i (i = 0..n-1) is directly followed by a sleep of b*2^i, nothing
\* follows the last attempt, and the last attempt's error is raised.
C1_ExhaustedRetries ==
    (gr_pc = "done" /\ AllAttemptsFailed) =>
        /\ Cardinality(RequestEvents) = gr_retries + 1
        /\ Len(gr_events) = 2 * gr_retries + 1
        /\ \A i \in 0 .. gr_retries :
              /\ gr_events[2 * i + 1].kind = "request"
              /\ i < gr_retries =>
                    /\ gr_events[2 * i + 2].kind = "sleep"
                    /\ gr_events[2 * i + 2].t = gr_backoff * (2 ^ i)
        /\ gr_result.kind = "raised"
        /\ gr_result.error = AttemptError(gr_events[Len(gr_events)].outcome)

C1_Witness ==
    /\ gr_pc = "done"
    /\ AllAttemptsFailed
    /\ gr_retries = MAX_RETRIES
    /\ gr_backoff = BACKOFF_FACTOR
    /\ gr_events[1].outcome = "transport"
    /\ gr_events[Len(gr_events)].outcome = "503"

NetworkErrors == {AttemptError(o) : o \in Outcomes}

\* C2: a response that raise_for_status accepts ends get_response: it is the
\* last event of the call (no request and no sleep follows it, also not
\* while or after get_json decodes the body); get_response hands it to its
\* caller, and get_json raises ValueError, which is none of the network
\* errors, when the body is not valid JSON.
C2_ReturnsFirstGoodResponse ==
    \A k \in RequestEvents :
        ~AttemptFails(gr_events[k].outcome) =>
            /\ k = Len(gr_events)
            /\ gr_pc \in {"decode", "done"}
            /\ gr_pc = "done" =>
                  IF gr_mode = "response"
                  THEN gr_result.kind = "response"
                  ELSE IF gr_body_ok
                       THEN gr_result.kind = "json"
                       ELSE /\ gr_result.kind = "raised"
                            /\ gr_result.error = "ValueError"
                            /\ gr_result.error \notin NetworkErrors

C2_Witness ==
    /\ gr_pc = "done"
    /\ gr_mode = "json"
    /\ Len(gr_events) = 3
    /\ gr_events[1].outcome = "404"
    /\ gr_events[3].outcome = "200"
    /\ ~gr_body_ok
    /\ gr_result.error = "ValueError"

(***************************************************************************)
(* Claims about the filing locator.  The claims' side is stated without    *)
(* the operators of the code: which spellings count as a proxy form, and   *)
(* the calendar order of the dates, are written out.                       *)
(***************************************************************************)
ProxySpellings == {<<"D", "E", "F", " ", "1", "4", "A">>, <<" ", "d", "e", "f", " ", "1", "4", " ">>}
CalendarRank(d) ==
    CASE d = <<"2", "0", "2", "3", "-", "0", "1", "-", "0", "1">> -> 1
      [] d = <<"2", "0", "2", "3", "-", "1", "1", "-", "3", "0">> -> 2
      [] d = <<"2", "0", "2", "4", "-", "0", "6", "-", "1", "5">> -> 3
ProxyEntries == {k \in 1 .. Len(loc_subs.form) : loc_subs.form[k] \in ProxySpellings}
\* the proxy entry with the greatest date, the first of them on a tie
IsWinner(k) ==
    /\ k \in ProxyEntries
    /\ \A j \in ProxyEntries :
          \/ CalendarRank(loc_subs.filingDate[j]) < CalendarRank(loc_subs.filingDate[k])
          \/ /\ loc_subs.filingDate[j] = loc_subs.filingDate[k]
             /\ k <= j
DocumentOf(k) ==
    IF k <= Len(loc_subs.primaryDocument) THEN loc_subs.primaryDocument[k] ELSE <<>>
AccessionNoDashAt(k) == <<"0", "0", "0", "1", "2", "4", "0", "0", "0", "0", "0">> \o <<Digits[k + 1]>>

\* C3: for every submissions document with a proxy entry, find_latest_def14a
\* returns the date, accession and primary document of the proxy entry whose
\* date is greatest, the lowest index among those tied on that date.
C3_LatestProxySelected ==
    (loc_pc \in {"check", "done"}) =>
        \A k \in 1 .. Len(loc_subs.form) :
            IsWinner(k) =>
                /\ ~loc_found.none
                /\ loc_found.filing_date = loc_subs.filingDate[k]
                /\ loc_found.acc_nodash = AccessionNoDashAt(k)
                /\ loc_found.primary_doc = DocumentOf(k)

C3_Witness ==
    /\ loc_pc = "check"
    /\ Len(loc_subs.form) = 3
    /\ loc_subs.form[1] = <<"D", "E", "F", " ", "1", "4", "A">>
    /\ loc_subs.filingDate[1] = <<"2", "0", "2", "3", "-", "0", "1", "-", "0", "1">>
    /\ loc_subs.form[2] = <<" ", "d", "e", "f", " ", "1", "4", " ">>
    /\ loc_subs.filingDate[2] = <<"2", "0", "2", "4", "-", "0", "6", "-", "1", "5">>
    /\ loc_subs.form[3] = <<"D", "E", "F", " ", "1", "4", "A">>
    /\ loc_subs.filingDate[3] = <<"2", "0", "2", "4", "-", "0", "6", "-", "1", "5">>
    /\ loc_found.acc_nodash = AccessionNoDashAt(2)

\* C4: the locator yields no filing exactly when there is no proxy entry
\* (find_latest_def14a returns None) or the winning entry has no primary
\* document (the driver skips); a filing that is yielded is the winning
\* entry's, never an older proxy entry's.
C4_NoFilingExactlyWhen ==
    (loc_pc = "done") =>
        /\ (loc_found.none <=> ProxyEntries = {})
        /\ (loc_outcome.state = "skippedNoFiling" <=> ProxyEntries = {})
        /\ \A k \in 1 .. Len(loc_subs.form) :
              IsWinner(k) =>
                  /\ (loc_outcome.state = "skippedNoDocument" <=> DocumentOf(k) = <<>>)
                  /\ (loc_outcome.state = "located" <=> DocumentOf(k) # <<>>)
                  /\ loc_outcome.state = "located" =>
                        /\ loc_outcome.acc_nodash = AccessionNoDashAt(k)
                        /\ loc_outcome.primary_doc = DocumentOf(k)

C4_Witness ==
    /\ loc_pc = "done"
    /\ Len(loc_subs.form) = 2
    /\ loc_subs.form[1] = <<"D", "E", "F", " ", "1", "4", "A">>
    /\ loc_subs.filingDate[1] = <<"2", "0", "2", "3", "-", "0", "1", "-", "0", "1">>
    /\ loc_subs.primaryDocument = <<<<"p", "r", "o", "x", "y", ".", "h", "t", "m">>, <<>>>>
    /\ loc_subs.form[2] = <<"D", "E", "F", " ", "1", "4", "A">>
    /\ loc_subs.filingDate[2] = <<"2", "0", "2", "4", "-", "0", "6", "-", "1", "5">>
    /\ loc_outcome.state = "skippedNoDocument"

(***************************************************************************)
(* Claims about the extraction cascade.  The classification of the model's *)
(* contents is written out here, apart from detect_content_type.           *)
(***************************************************************************)
HtmlContents == {<<"<", "!", "d", "o", "c", "t", "y", "p", "e", " ", "H", "T", "M", "L", ">">>, <<"<", "?", "x", "m", "l", " ", "?", ">", "<", "/", "H", "T", "M", "L", ">">>}
XmlContents == {<<"<", "b", ">", "x", "<", "/", "b", ">">>}
ExpectedOrder ==
    <<"naive">>
    \o (IF pa_doc.content \in HtmlContents THEN <<"html">>
        ELSE IF pa_doc.content \in XmlContents THEN <<"xml">>
        ELSE <<>>)
    \o <<"text">>

\* C5: the strategies run are an initial part of the fixed order naive,
\* then the html search (html content) or the xml search (xml content),
\* then text; a strategy runs only after all before it returned nothing; a
\* strategy that returns a table returns a non-empty one, is the last to
\* run, and its table is what parse_proxy_content returns.
C5_CascadeOrder ==
    /\ Len(pa_trace) <= Len(ExpectedOrder)
    /\ \A k \in 1 .. Len(pa_trace) :
          /\ pa_trace[k].strategy = ExpectedOrder[k]
          /\ k < Len(pa_trace) => pa_trace[k].result.none
          /\ ~pa_trace[k].result.none =>
                /\ pa_trace[k].result.rows # <<>>
                /\ pa_pc = "done"
                /\ pa_result = pa_trace[k].result
    /\ pa_pc = "done" =>
          /\ pa_trace # <<>>
          /\ pa_result = pa_trace[Len(pa_trace)].result
          /\ pa_result.none => Len(pa_trace) = Len(ExpectedOrder)
          /\ pa_result = parse_proxy_content(pa_doc)

\* the html search wins after the naive parse found nothing
C5_Witness ==
    /\ pa_pc = "done"
    /\ Len(pa_trace) = 2
    /\ pa_trace[2].strategy = "html"
    /\ ~pa_result.none
    /\ pa_doc.text.matches # <<>>

(***************************************************************************)
(* Claims about the batch runs.                                            *)
(***************************************************************************)
\* the records of the returned table
OutputRows == IF b_output.none THEN <<>> ELSE b_output.rows
\* the records collected so far
CollectedRows == IF b_kind = "proxy" THEN Concat(b_rows) ELSE b_rows
PercentOf(r) == IF b_kind = "proxy" THEN r.percent_class ELSE r.percent_owned
HolderOf(r) == IF b_kind = "proxy" THEN r.holder ELSE r.holder_name
HasNumber(r) == r.shares # Null \/ PercentOf(r) # Null

\* C6: no record of a batch's final output has both shares and percent
\* null, whichever extraction path emitted it, also after the percentages
\* outside 0..100 have been nulled in the combined table.
C6_NoRecordWithoutNumbers ==
    b_pc = "done" => \A k \in 1 .. Len(OutputRows) : HasNumber(OutputRows[k])

\* C7: in every batch output (table/text scraper, simple scraper,
\* comprehensive scraper) a percentage that is not null lies in 0..100.
C7_PercentWithinRange ==
    b_pc = "done" =>
        \A k \in 1 .. Len(OutputRows) :
            PercentOf(OutputRows[k]) # Null =>
                /\ 0 <= PercentOf(OutputRows[k])[1]
                /\ PercentOf(OutputRows[k])[1] <= 10000

\* the text contains 'total' in some letter case
MentionsTotal(text) ==
    \E i \in 1 .. Len(text) - 4 :
        /\ text[i] \in {"t", "T"}
        /\ text[i + 1] \in {"o", "O"}
        /\ text[i + 2] \in {"t", "T"}
        /\ text[i + 3] \in {"a", "A"}
        /\ text[i + 4] \in {"l", "L"}

\* C8: no record collected by a batch, and no record of its output, has a
\* holder name containing 'total' in any letter case.
C8_NoTotalHolder ==
    /\ \A k \in 1 .. Len(CollectedRows) : ~MentionsTotal(HolderOf(CollectedRows[k]))
    /\ \A k \in 1 .. Len(OutputRows) : ~MentionsTotal(HolderOf(OutputRows[k]))

\* The run has ended; the last company's tables held a row named 'Total'
\* next to a Vanguard row, and of the two only the Vanguard row is in the
\* output.
C8_Witness ==
    /\ b_kind = "proxy" /\ b_pc = "done"
    /\ b_outcomes # <<>> /\ b_outcomes[Len(b_outcomes)] = "success"
    /\ pa_doc.read_html.tables = <<TableTotalsOnly, TableStandard>>
    /\ Len(b_rows[Len(b_rows)]) = 1
    /\ OutputRows[Len(OutputRows)].holder = <<"V", "a", "n", "g", "u", "a", "r", "d", " ", "G", "r", "o", "u", "p">>
    /\ MentionsTotal(TableStandard.rows[2][1])

\* the percentage fails the range check of the combined table
PercentFails(r) == r.percent_class # Null /\ (r.percent_class[1] < 0 \/ r.percent_class[1] > 10000)
\* validation does not leave the record without a value
NotEmptiedByValidation(r) == ~(PercentFails(r) /\ r.shares = Null)
\* the records with each failing percentage nulled, all else unchanged
FailingNulled(rows) ==
    [k \in 1 .. Len(rows) |->
        IF PercentFails(rows[k]) THEN [rows[k] EXCEPT !.percent_class = Null]
        ELSE rows[k]]

\* C9: validation nulls only the failing value and drops a record exactly
\* when both of its values end up null: the output of the table/text
\* scraper is its collected records, less those whose percentage fails and
\* which have no share count, each with a failing percentage nulled and
\* all else unchanged; a record of the comprehensive scraper's output has a
\* value.
C9_OnlyFailingValueNulled ==
    b_pc = "done" =>
        /\ b_kind = "proxy" =>
               OutputRows = FailingNulled(SelectSeq(CollectedRows, NotEmptiedByValidation))
        /\ b_kind = "comprehensive" =>
               \A k \in 1 .. Len(OutputRows) : HasNumber(OutputRows[k])

SixStates == {"success", "skippedNoFiler", "skippedNoFiling", "skippedNoDocument",
              "failedDownload", "skippedNoTable"}
SuccessCount(outcomes) == Cardinality({k \in DOMAIN outcomes : outcomes[k] = "success"})

\* C10 as stated: each company ends in one of the six terminal states, and
\* in every case the driver moves on to the next company, so that a run
\* that has ended has passed every company of the list.
C10_SixStatesThenNext ==
    /\ \A k \in DOMAIN b_outcomes : b_outcomes[k] \in SixStates
    /\ b_pc = "done" => Len(b_outcomes) = Len(Companies)

\* the records a step appended
Appended == IF b_kind = "proxy" THEN b_rows'[Len(b_rows')]
            ELSE SubSeq(b_rows', Len(b_rows) + 1, Len(b_rows'))
\* the step extended the collected records
Extended == IF b_kind = "proxy" THEN Len(b_rows') = Len(b_rows) + 1
                                     /\ SubSeq(b_rows', 1, Len(b_rows)) = b_rows
            ELSE Len(b_rows') > Len(b_rows)
                 /\ SubSeq(b_rows', 1, Len(b_rows)) = b_rows

\* C10, amended: each company the driver starts ends in exactly one of the
\* six states or, in fetch_ownership_for_sp500, in caughtError (an error
\* raised inside the per-company try block); a pattern scraper's company
\* ends in success or in one of its four empty results.  A state other
\* than success leaves the collected records unchanged, success appends
\* records of that company only, the collected records change at no other
\* step, and the loop then turns to the next company; a pattern scraper
\* passes every company, and fetch_ownership_for_sp500 passes every company
\* unless its successes reach the limit, after which it starts no company.
C10_TerminalStates ==
    /\ [](/\ Len(b_outcomes) = b_idx - 1
          /\ \A k \in DOMAIN b_outcomes :
                 b_outcomes[k] \in IF b_kind = "proxy"
                                   THEN SixStates \cup {"caughtError"}
                                   ELSE SixStates \ {"skippedNoDocument"}
          /\ b_pc = "done" =>
                 \/ Len(b_outcomes) = Len(Companies)
                 \/ b_kind = "proxy" /\ SuccessCount(b_outcomes) = b_limit)
    /\ [][/\ b_rows' # b_rows => b_outcomes' # b_outcomes
          /\ b_outcomes' # b_outcomes =>
                 /\ Len(b_outcomes') = Len(b_outcomes) + 1
                 /\ SubSeq(b_outcomes', 1, Len(b_outcomes)) = b_outcomes
                 /\ b_idx' = b_idx + 1 /\ b_pc' = "loop"
                 /\ b_kind = "proxy" => SuccessCount(b_outcomes) < b_limit
                 /\ IF b_outcomes'[Len(b_outcomes')] = "success"
                    THEN /\ Extended
                         /\ Appended # <<>>
                         /\ \A k \in 1 .. Len(Appended) :
                                Appended[k].ticker = StrUpper(Companies[b_idx].ticker)
                    ELSE b_rows' = b_rows]_vars

\* A run of fetch_ownership_for_sp500 has ended whose first company ended
\* in the caught error and whose second company, taken up next, succeeded.
C10_Witness ==
    /\ b_kind = "proxy" /\ b_pc = "done"
    /\ b_outcomes = <<"caughtError", "success">>
    /\ Len(b_rows) = 1

\* an error was raised while company k was processed: a request of the
\* company failed, or the proxy driver's outer or inner except caught one
ErrorAt(k) ==
    \/ \E j \in DOMAIN b_requests : b_requests[j].company = k /\ ~b_requests[j].ok
    \/ b_kind = "proxy" /\ b_outcomes[k] \in {"caughtError", "failedDownload"}

C12_InterruptStopsBatch ==
    b_interrupted => b_pc = "exit0" /\ b_output = None

\* the primary request and its parsing succeeded with at least one entry
PrimarySucceeds ==
    /\ ix_primary.raises = "none" /\ ix_primary.data # {}
    /\ PrimaryNoTicker \notin ix_primary.data
FallbackSucceeds ==
    ix_fallback.raises = "none" /\ FallbackNoTicker \notin ix_fallback.data
\* upper-case ticker and ten-digit filer id of the companies in a document
MappingOf(present) ==
    {[ticker |-> Companies[k].ticker, cik |-> CikOf(k)] : k \in present}

\* C13: get_ticker_cik_map never raises.  It returns the primary mapping,
\* with no fallback request, exactly when the primary request and parsing
\* succeed with at least one entry; otherwise it requests the fallback and
\* returns its mapping, or the empty mapping when the fallback fails too.
\* A ticker the mapping lacks makes the driver skip the company.
C13_IndexMapContract ==
    /\ ix_pc # "raised"
    /\ ix_pc = "returned" =>
           IF PrimarySucceeds
           THEN /\ ix_requests = <<"primary">>
                /\ ix_out = MappingOf({k \in 1 .. MaxCompanies :
                                           PrimaryRecord(k) \in ix_primary.data})
           ELSE /\ ix_requests = <<"primary", "fallback">>
                /\ ix_out = IF FallbackSucceeds
                            THEN MappingOf({k \in 1 .. MaxCompanies :
                                                FallbackRecord(k) \in ix_fallback.data})
                            ELSE {}
    /\ ix_lookup # NoLookup =>
           /\ ix_lookup.state \in {"skippedNoFiler", "lookedUp"}
           /\ ix_lookup.state = "skippedNoFiler" <=>
                  ~\E e \in ix_out : e.ticker = Companies[ix_lookup.company].ticker

\* The primary document lacked a key in one record, the fallback was
\* requested and gave a mapping without the second company, and the
\* driver skipped that company.
C13_Witness ==
    /\ ix_pc = "returned"
    /\ PrimaryNoTicker \in ix_primary.data
    /\ ix_requests = <<"primary", "fallback">>
    /\ ix_out = MappingOf({1, 3})
    /\ ix_lookup = [company |-> 2, state |-> "skippedNoFiler"]

\* C14: in one batch run the ticker index is requested at most once,
\* whatever the number of companies and whether the request succeeds.
C14_IndexFetchedOnce ==
    Cardinality({j \in DOMAIN b_requests : b_requests[j].what = "index"}) <= 1

\* C15: clean_holder_name gives its own result back when called with it.
C15_CleanIdempotent ==
    (call_fn = "clean_holder_name" /\ call_pc = "again") => call_ret = call_arg

BLACKROCK == <<"B", "l", "a", "c", "k", "R", "o", "c", "k">>

\* The second call was made with a label an alias rule gave for a name
\* that it changed, and with the label BlackRock, which matches no rule.
C15_Witness ==
    /\ call_fn = "clean_holder_name" /\ call_pc = "again"
    /\ call_arg = BLACKROCK /\ call_ret = BLACKROCK

\* the labels in rule order, and whether rule k matches the lower-cased text
RuleLabels ==
    << <<"V", "a", "n", "g", "u", "a", "r", "d", " ", "G", "r", "o", "u", "p">>,
       <<"B", "l", "a", "c", "k", "R", "o", "c", "k">>,
       <<"S", "t", "a", "t", "e", " ", "S", "t", "r", "e", "e", "t">>,
       <<"F", "i", "d", "e", "l", "i", "t", "y">>,
       <<"T", ".", " ", "R", "o", "w", "e", " ", "P", "r", "i", "c", "e">>,
       <<"B", "e", "r", "k", "s", "h", "i", "r", "e", " ", "H", "a", "t", "h", "a", "w", "a", "y">> >>
RuleMatches(k, lower) ==
    LET at(w) == \E i \in 1 .. Len(lower) - Len(w) + 1 :
                     /\ SubSeq(lower, i, i + Len(w) - 1) = w
                     /\ i = 1 \/ ~(IsLetter(lower[i - 1]) \/ IsDigit(lower[i - 1])
                                      \/ lower[i - 1] = "_")
    IN  CASE k = 1 -> at(<<"t", "h", "e", " ", "v", "a", "n", "g", "u", "a", "r", "d", " ", "g", "r", "o", "u", "p">>)
          [] k = 2 -> at(<<"b", "l", "a", "c", "k", "r", "o", "c", "k", " ", "i", "n", "c">>) \/ at(<<"b", "l", "a", "c", "k", "r", "o", "c", "k", ",", " ", "i", "n", "c">>)
          [] k = 3 -> at(<<"s", "t", "a", "t", "e", " ", "s", "t", "r", "e", "e", "t">>)
          [] k = 4 -> at(<<"f", "i", "d", "e", "l", "i", "t", "y">>)
          [] k = 5 -> at(<<"t", " ", "r", "o", "w", "e", " ", "p", "r", "i", "c", "e">>) \/ at(<<"t", ".", " ", "r", "o", "w", "e", " ", "p", "r", "i", "c", "e">>)
          [] k = 6 -> at(<<"b", "e", "r", "k", "s", "h", "i", "r", "e", " ", "h", "a", "t", "h", "a", "w", "a", "y">>)
\* the text with every run of blanks turned into one blank and no blank at
\* either end
RECURSIVE Squeezed(_)
Squeezed(s) ==
    IF s = <<>> THEN <<>>
    ELSE IF IsSpace(Head(s))
         THEN IF Tail(s) = <<>> THEN <<>>
              ELSE IF IsSpace(Head(Tail(s))) THEN Squeezed(Tail(s))
              ELSE <<" ">> \o Squeezed(Tail(s))
         ELSE <<Head(s)>> \o Squeezed(Tail(s))
Cleaned(s) == LET q == Squeezed(s) IN IF q # <<>> /\ Head(q) = " " THEN Tail(q) ELSE q

\* C16: clean_holder_name returns the label of the first rule, in rule
\* order, that matches the lower-cased, whitespace-collapsed name, and the
\* whitespace-collapsed name in its own letter case when no rule matches.
C16_FirstRuleWins ==
    (call_fn = "clean_holder_name" /\ call_pc = "returned") =>
        LET lower == StrLower(Cleaned(call_arg))
        IN  /\ \A k \in 1 .. 6 :
                   (RuleMatches(k, lower) /\ \A j \in 1 .. k - 1 : ~RuleMatches(j, lower))
                       => call_ret = RuleLabels[k]
            /\ (\A k \in 1 .. 6 : ~RuleMatches(k, lower)) => call_ret = Cleaned(call_arg)

\* A name in which the Fidelity rule's text comes first and the Vanguard
\* rule's text second was given the label of the Vanguard rule.
C16_Witness ==
    /\ call_fn = "clean_holder_name" /\ call_pc = "returned"
    /\ call_arg = <<"F", "i", "d", "e", "l", "i", "t", "y", " ", "a", "n", "d", " ", "T", "h", "e", " ", "V", "a", "n", "g", "u", "a", "r", "d", " ", "G", "r", "o", "u", "p">>
    /\ call_ret = RuleLabels[1]

\* the leftmost column, counted from 0, whose lower-cased header holds one
\* of the keywords
Leftmost(columns, keywords) ==
    LET hits == {i \in 1 .. Len(columns) :
                    \E w \in keywords : Contains(StrLower(columns[i]), w)}
    IN  IF hits = {} THEN Null
        ELSE Some((CHOOSE i \in hits : \A j \in hits : i <= j) - 1)

\* C17: detect_ownership_columns gives each role the leftmost column whose
\* header holds one of the role's keywords, the first column included, and
\* a table without a name header has its holders read from the first
\* column.
C17_LeftmostColumnWins ==
    /\ (call_fn = "detect_ownership_columns" /\ call_pc = "returned") =>
           /\ call_ret.name = Leftmost(call_arg, NameKeywords)
           /\ call_ret.percent = Leftmost(call_arg, PercentKeywords)
           /\ call_ret.shares = Leftmost(call_arg, SharesKeywords)
    /\ (/\ call_fn = "process_ownership_table" /\ call_pc = "returned"
        /\ Leftmost(call_arg.columns, NameKeywords) = Null) =>
           \A k \in DOMAIN call_ret :
               \E r \in DOMAIN call_arg.rows :
                   call_arg.rows[r][1] = call_ret[k].holder_raw

\* the header names its three roles in the order name, shares, percent of
\* class, each column with keywords of its own role only
ThreeRoleHeader(columns) ==
    /\ Len(columns) = 3
    /\ \A i \in 1 .. 3 :
           LET has(keywords) == \E w \in keywords : Contains(StrLower(columns[i]), w)
           IN  /\ has(NameKeywords) <=> i = 1
               /\ has(SharesKeywords) <=> i = 2
               /\ has(PercentKeywords) <=> i = 3
\* the number in a percent cell of the model, in hundredths
NumberIn(c) ==
    CASE c = <<"8", ".", "5", "%">> -> Some(850)
      [] c = <<"5", "%">> -> Some(500)
      [] c = <<"1", "5", "0", "%">> -> Some(15000)
      [] c = <<"1", "2">> -> Some(1200)
      [] OTHER -> Null
\* the integer the digits of a cell form, when it has any
DigitsOf(c) ==
    IF c = NaN \/ SelectSeq(c, IsDigit) = <<>> THEN Null
    ELSE Some(ParseNat(SelectSeq(c, IsDigit)))
IsHolderRow(row) ==
    ~MentionsTotal(clean_holder_name(row[1])) /\ Len(clean_holder_name(row[1])) > 1
RecordOfRow(row) ==
    [holder_raw |-> row[1], holder |-> clean_holder_name(row[1]),
     percent_class |-> NumberIn(row[3]), shares |-> DigitsOf(row[2])]

NameColumn(columns) ==
    LET cm == detect_ownership_columns([k \in 1 .. Len(columns) |->
                                           StrStrip(CollapseSpaces(columns[k]))])
    IN  IF cm.name # Null THEN cm.name[1] + 1 ELSE 1

\* C19: process_ownership_table returns no record for a row whose name
\* cell is missing, and no record whose holder has at most one character.
C19_NoEmptyHolder ==
    (call_fn = "process_ownership_table" /\ call_pc = "returned") =>
        /\ Len(call_ret) <= Cardinality({r \in DOMAIN call_arg.rows :
                                call_arg.rows[r][NameColumn(call_arg.columns)] # NaN})
        /\ \A k \in DOMAIN call_ret : Len(call_ret[k].holder) > 1

\* where a text holds a piece, letter case ignored or not
Holds(text, piece) ==
    \E i \in 1 .. Len(text) - Len(piece) + 1 : SubSeq(text, i, i + Len(piece) - 1) = piece
HoldsAnyCase(text, piece) == Holds(StrLower(text), StrLower(piece))
HtmlMarker(text) ==
    \/ HoldsAnyCase(text, <<"<", "!", "d", "o", "c", "t", "y", "p", "e", " ", "h", "t", "m", "l">>)
    \/ HoldsAnyCase(text, <<"<", "/", "h", "t", "m", "l", ">">>)
XmlDeclaration(text) == Holds(text, <<"<", "?", "x", "m", "l">>)
\* a closing tag: "</", a name that begins with a letter and goes on with
\* letters, digits, ":", "-", "_" or ".", then ">"
ClosingTag(text) ==
    \E i \in 1 .. Len(text) : \E e \in i + 3 .. Len(text) :
        /\ text[i] = "<" /\ text[i + 1] = "/" /\ text[e] = ">"
        /\ IsLetter(text[i + 2])
        /\ \A k \in i + 3 .. e - 1 :
               IsLetter(text[k]) \/ IsDigit(text[k]) \/ text[k] \in {":", "-", "_", "."}
\* a closing tag whose name is made of the letters a-z, A-Z only
LetterClosingTag(text) ==
    \E i \in 1 .. Len(text) : \E e \in i + 3 .. Len(text) :
        /\ text[i] = "<" /\ text[i + 1] = "/" /\ text[e] = ">"
        /\ \A k \in i + 2 .. e - 1 : IsLetter(text[k])

\* C20 as stated: html with an HTML doctype or a closing html tag in any
\* letter case; else xml with an XML declaration or any closing tag; else
\* text.
C20_AnyClosingTag ==
    (call_fn = "detect_content_type" /\ call_pc = "returned") =>
        call_ret = IF HtmlMarker(call_arg) THEN "html"
                   ELSE IF XmlDeclaration(call_arg) \/ ClosingTag(call_arg) THEN "xml"
                   ELSE "text"

\* C20, amended: html with an HTML doctype or a closing html tag in any
\* letter case, whatever else the content holds; else xml with "<?xml" or a
\* closing tag whose name is made of letters only; else text.
C20_ContentType ==
    (call_fn = "detect_content_type" /\ call_pc = "returned") =>
        call_ret = IF HtmlMarker(call_arg) THEN "html"
                   ELSE IF XmlDeclaration(call_arg) \/ LetterClosingTag(call_arg) THEN "xml"
                   ELSE "text"

\* A content with an XML declaration followed by a closing html tag in
\* capitals was classified as html.
C20_Witness ==
    /\ call_fn = "detect_content_type" /\ call_pc = "returned"
    /\ call_arg = <<"<", "?", "x", "m", "l", " ", "v", "e", "r", "s", "i", "o", "n", "=", "'", "1", ".", "0", "'", "?", ">">> \o <<"<", "/", "H", "T", "M", "L", ">">>
    /\ call_ret = "html"

\* the document has no table a strategy could parse and no ownership
\* heading for the text extraction
NoTableNoHeading(doc) ==
    /\ doc.read_html.raises \/ doc.read_html.tables = <<>>
    /\ doc.html_candidates = <<>> /\ doc.xml_candidates = <<>>
    /\ ~doc.text.has_section

\* C21: parse_proxy_content returns none or a table with at least one
\* row, and none for a document without parseable table and without
\* ownership heading; after none the driver ends the company without a
\* record and without counting it, and goes on with the next company.
C21_NoneOrNonEmptyTable ==
    /\ [](pa_pc = "done" =>
              /\ pa_result.none \/ pa_result.rows # <<>>
              /\ NoTableNoHeading(pa_doc) => pa_result.none)
    /\ [][(/\ b_pc = "parse" /\ pa_pc = "done" /\ pa_result.none
           /\ b_pc' # "parse" /\ ~b_interrupted')
             => /\ b_rows' = b_rows /\ b_processed' = b_processed
                /\ Len(b_outcomes') = Len(b_outcomes) + 1
                /\ b_outcomes'[Len(b_outcomes')] \in {"skippedNoTable", "caughtError"}
                /\ b_idx' = b_idx + 1 /\ b_pc' = "loop"]_vars

\* The first company's document had neither table nor heading, the parser
\* returned none, and the driver recorded the skip and went on to the
\* second company, whose submissions request was made.
C21_Witness ==
    /\ b_kind = "proxy"
    /\ b_outcomes = <<"skippedNoTable">>
    /\ NoTableNoHeading(pa_doc) /\ pa_result.none
    /\ \E j \in DOMAIN b_requests :
           b_requests[j].company = 2 /\ b_requests[j].what = "submissions"
    /\ b_processed = 0 /\ b_rows = <<>>
    /\ \E j \in DOMAIN b_requests :
           b_requests[j] = [company |-> 1, what |-> "document", ok |-> TRUE]

\* C22: a batch run that has completed has left an output dataset, an
\* empty one when no record was collected.
C22_DatasetAlwaysProduced ==
    (b_pc = "exit0" /\ ~b_interrupted) =>
        /\ ~b_file.none
        /\ b_file.rows = b_output.rows

\* ---------------------------------------------------------------------
\* C23  Companies are processed strictly one after another, in list order:
\* no request for a company is issued before every earlier company has
\* reached a terminal state, and none after its own; within one company
\* the submissions request precedes the document request, a submissions
\* request is issued only once the filer identifier is resolved, and a
\* document request only once a proxy filing with a non-empty primary
\* document has been selected.
LastRequest(reqs) == reqs[Len(reqs)]

\* the URL of a selected filing names a primary document: it does not end
\* with the separator that precedes the document name
NamesDocument(url) == url # <<>> /\ url[Len(url)] # "/"

RequestsInOrder(reqs) ==
    /\ \A i, j \in DOMAIN reqs : i < j => reqs[i].company <= reqs[j].company
    /\ \A j \in DOMAIN reqs :
          reqs[j].what = "document" =>
             \E i \in 1 .. j - 1 :
                reqs[i] = [company |-> reqs[j].company, what |-> "submissions", ok |-> TRUE]

C23_OneCompanyAtATime ==
    /\ [](RequestsInOrder(b_requests))
    /\ [][b_requests' # b_requests =>
            /\ Len(b_requests') = Len(b_requests) + 1
            /\ SubSeq(b_requests', 1, Len(b_requests)) = b_requests
            /\ LET r == LastRequest(b_requests')
               IN  /\ r.what = "index" \/ r.company = Len(b_outcomes) + 1
                   /\ r.company <= Len(b_outcomes) + 1
                   /\ r.what \in {"submissions", "document"} => b_cur.cik # <<>>
                   /\ r.what = "document" => NamesDocument(b_cur.url)]_vars

C23_Witness ==
    /\ Len(b_outcomes) >= 2
    /\ \E i, j, k \in DOMAIN b_requests :
          /\ i < j /\ j < k
          /\ b_requests[i] = [company |-> 1, what |-> "submissions", ok |-> TRUE]
          /\ b_requests[j] = [company |-> 1, what |-> "document", ok |-> TRUE]
          /\ b_requests[k].company = 2 /\ b_requests[k].what = "document"

\* ---------------------------------------------------------------------
\* C24  The filing whose URL _get_latest_filing_url / _get_latest_filing_url_fast
\* return is the filer's most recent proxy filing by date, whatever the
\* order of the entries in the submissions arrays.
C24_MostRecentByDate ==
    (loc_pc = "returned" /\ loc_outcome.state = "url") =>
        \A k \in 1 .. Len(loc_subs.form) :
            IsWinner(k) =>
                loc_outcome.url = FilingUrl(CikOf(1), AccessionNoDashAt(k), DocumentOf(k))

\* ---------------------------------------------------------------------
\* C25  Every record of a batch's output carries ticker, company name,
\* holder name, shares, percent, filing date, filing URL and sector, and
\* the filing date and URL are those of the filing it was extracted from.
OutputColumns(rec) ==
    /\ {"ticker", "shares", "filing_date", "filing_url", "sector"} \subseteq DOMAIN rec
    /\ \/ {"company", "holder", "percent_class"} \subseteq DOMAIN rec
       \/ {"company_name", "holder_name", "percent_owned"} \subseteq DOMAIN rec

C25_RecordsComplete ==
    (b_pc = "done") =>
        \A k \in DOMAIN b_output.rows :
            /\ OutputColumns(b_output.rows[k])
            /\ NamesDocument(b_output.rows[k].filing_url)
            /\ \E r \in DriverSubs : \E i \in DOMAIN r.filingDate :
                  b_output.rows[k].filing_date = r.filingDate[i]

\* ---------------------------------------------------------------------
\* C26  Ticker normalization (uppercase, trim, replace '.' with '-') is
\* idempotent, maps 'BRK.B' to 'BRK-B', and the ticker looked up in the
\* ticker-to-filer-id mapping is always the normalized one.
IsNormalTicker(t) ==
    /\ \A i \in DOMAIN t : t[i] # "." /\ \A j \in DOMAIN LowerLetters : t[i] # LowerLetters[j]
    /\ t # <<>> => t[1] # " " /\ t[Len(t)] # " "
BRK_DOT_B == <<"B", "R", "K", ".", "B">>
BRK_DASH_B == <<"B", "R", "K", "-", "B">>

C26_TickerNormalization ==
    (call_fn = "ticker" /\ call_pc \in {"returned", "again"}) =>
        /\ IsNormalTicker(call_ret.ticker)
        /\ call_arg = BRK_DOT_B => call_ret.ticker = BRK_DASH_B
        /\ call_pc = "again" => call_ret.ticker = call_arg
        /\ \A k \in 1 .. MaxCompanies :
              call_ret.ticker = Companies[k].ticker => call_ret.cik = CikOf(k)
        /\ (\A k \in 1 .. MaxCompanies : call_ret.ticker # Companies[k].ticker)
              => call_ret.cik = <<>>

C26_Witness ==
    /\ call_fn = "ticker" /\ call_pc = "again"
    /\ call_arg = BRK_DASH_B
    /\ call_ret = [ticker |-> BRK_DASH_B, cik |-> CikOf(2)]

\* ---------------------------------------------------------------------
\* C27  In fetch_ownership_for_sp500(limit=n) only the companies that end
\* in success count toward the limit: the counter equals the number of
\* successes and of tables collected, it never exceeds n, no company is
\* taken up once it equals n, and a run that ended below n has passed the
\* whole list, whatever the number of skipped and failed companies.
SuccessesBefore(k) == SuccessCount(SubSeq(b_outcomes, 1, k - 1))

C27_LimitCountsSuccesses ==
    (b_kind = "proxy") =>
        /\ b_processed = SuccessCount(b_outcomes)
        /\ Len(b_rows) = SuccessCount(b_outcomes)
        /\ SuccessCount(b_outcomes) <= b_limit
        /\ \A k \in DOMAIN b_outcomes : SuccessesBefore(k) < b_limit
        /\ b_pc \in {"submissions", "download", "parse"} =>
              SuccessCount(b_outcomes) < b_limit
        /\ (b_pc \in {"combine", "done"} /\ SuccessCount(b_outcomes) < b_limit) =>
              Len(b_outcomes) = Len(Companies)

\* a run with limit 1 that ended after a failed company and one success,
\* with a company of the list left
C27_Witness ==
    /\ b_kind = "proxy" /\ b_pc = "done" /\ b_limit = 1
    /\ b_outcomes = <<"failedDownload", "success">>
    /\ Len(b_outcomes) < Len(Companies)
    /\ b_processed = 1

\* ---------------------------------------------------------------------
\* C28  The institution-pattern extraction emits at most one record per
\* institution per filing.  For each institution the patterns are tried in
\* order; of a pattern only the first occurrence is examined; a pattern
\* whose first occurrence gives no data is passed over for the next
\* pattern; the first pattern that gives data makes the record and ends
\* the search for that institution.
InstitutionsOf(kind) == IF kind = "simple" THEN SimpleInstitutions ELSE MajorInstitutions

\* the occurrences of pattern j of institution k, and the earliest of them
OccurrencesOf(k, j) == {m \in call_arg.mentions : m.inst = k /\ m.pat = j}
EarliestOf(k, j) ==
    CHOOSE m \in OccurrencesOf(k, j) : \A n \in OccurrencesOf(k, j) : n.pos >= m.pos

\* data as a parsed value that is present
GivesValue(v) == v.shares # Null \/ v.percent # Null
\* data as the code tests it: a value that is present and not zero
GivesNonZero(v) ==
    \/ v.shares # Null /\ v.shares[1] # <<>>
    \/ v.percent # Null /\ v.percent[1] # 0

RecordsOf(label) == {i \in DOMAIN call_ret : call_ret[i].holder_name = label}

OnePerInstitution(Data(_)) ==
    LET insts == InstitutionsOf(call_arg.kind)
    IN  /\ \A i \in DOMAIN call_ret : \E k \in DOMAIN insts : call_ret[i].holder_name = insts[k].label
        /\ \A k \in DOMAIN insts :
              LET with == {j \in 1 .. insts[k].patterns :
                              /\ OccurrencesOf(k, j) # {}
                              /\ Data(ValuesOf(call_arg.kind, EarliestOf(k, j)))}
              IN  IF with = {} THEN RecordsOf(insts[k].label) = {}
                  ELSE LET j == CHOOSE j \in with : \A h \in with : j <= h
                           v == ValuesOf(call_arg.kind, EarliestOf(k, j))
                       IN  /\ Cardinality(RecordsOf(insts[k].label)) = 1
                           /\ \A i \in RecordsOf(insts[k].label) :
                                 /\ call_ret[i].shares = v.shares
                                 /\ call_ret[i].percent_owned = v.percent

\* C28 with data read as any parsed value
C28_FirstPatternWithValue ==
    (call_fn = "extract_holders" /\ call_pc = "returned") => OnePerInstitution(GivesValue)

\* C28, amended: data is a share count or a percentage that is not zero
C28_OneRecordPerInstitution ==
    (call_fn = "extract_holders" /\ call_pc = "returned") => OnePerInstitution(GivesNonZero)

\* The first pattern of the first institution occurs twice, with numbers
\* only at its second occurrence, and the second pattern occurs with
\* numbers: the one record of the institution has the second pattern's.
C28_Witness ==
    /\ call_fn = "extract_holders" /\ call_pc = "returned"
    /\ call_arg.mentions = {Occurrence(1, 1, 1, NoNumbers), Occurrence(1, 1, 2, SmallHolding),
                            Occurrence(1, 2, 1, LargeHolding)}
    /\ Len(call_ret) = 1
    /\ call_ret[1].shares = Some(<<"7", "6", "5", "4", "3", "2", "1">>)
    /\ call_ret[1].percent_owned = Some(925)

\* ---------------------------------------------------------------------
\* C29  find_ownership_table_in_html returns a table only if it lies inside
\* one of the three nearest ancestors of an element that matches the
\* ownership vocabulary or carries a known section id.  The matching
\* elements are visited in order (the headings in document order, then the
\* element with the section id), for each the ancestors from the nearest to
\* the farthest, in each ancestor the tables in document order; the result
\* is the first table so visited that normalizes to a non-empty table, a
\* table that fails to parse being passed over; without one it is None.
DomNodes == 1 .. Len(call_arg.parent)
\* the ancestor of element n at distance d (0 when there is none)
RECURSIVE AncestorAt(_, _)
AncestorAt(n, d) ==
    IF n = 0 THEN 0
    ELSE IF d = 0 THEN n
    ELSE AncestorAt(call_arg.parent[n], d - 1)
\* element t is a descendant of element a
Below(t, a) == \E d \in 1 .. Len(call_arg.parent) : AncestorAt(t, d) = a /\ a # 0

\* the matching elements, and their place in the order of the visit
MatchingElements ==
    {n \in DomNodes : call_arg.label[n] = "heading"}
        \cup {n \in DomNodes : /\ call_arg.label[n] = "section"
                               /\ \A m \in 1 .. n - 1 : call_arg.label[m] # "section"}
VisitRank(n) == IF call_arg.label[n] = "heading" THEN n ELSE Len(call_arg.parent) + 1

NormalizesNonEmpty(t) == call_arg.label[t] \in {"tableA", "tableB"}
TableOf(t) == IF call_arg.label[t] = "tableA" THEN SectionTableA ELSE SectionTableB

\* the visits <<element, distance, table>> that end the search if reached
Hits ==
    {v \in MatchingElements \X (1 .. 3) \X DomNodes :
        /\ Below(v[3], AncestorAt(v[1], v[2]))
        /\ NormalizesNonEmpty(v[3])}
Earlier(v, w) ==
    \/ VisitRank(v[1]) < VisitRank(w[1])
    \/ v[1] = w[1] /\ v[2] < w[2]
    \/ v[1] = w[1] /\ v[2] = w[2] /\ v[3] <= w[3]

C29_SectionSearch ==
    (call_fn = "find_ownership_table_in_html" /\ call_pc = "returned") =>
        IF Hits = {} THEN call_ret = None
        ELSE LET first == CHOOSE v \in Hits : \A w \in Hits : Earlier(v, w)
             IN  /\ call_ret = DataFrame(process_ownership_table(TableOf(first[3])))
                 /\ call_ret.rows # <<>>

\* A heading three levels below the root: a sibling table that fails to
\* parse is passed over, and the table found is the one in the third
\* ancestor.
C29_Witness ==
    /\ call_fn = "find_ownership_table_in_html" /\ call_pc = "returned"
    /\ call_arg = [parent |-> <<0, 1, 2, 3, 4, 1>>,
                   label |-> <<"plain", "plain", "plain", "heading", "tableBad", "tableA">>]
    /\ call_ret = DataFrame(process_ownership_table(SectionTableA))

\* ---------------------------------------------------------------------
\* C30  detect_ownership_columns gives the roles name, percent and shares
\* to pairwise distinct columns: no column is read both as the holder name
\* and as the share count or the percentage of the same table.
C30_RolesDistinct ==
    (call_fn = "detect_ownership_columns" /\ call_pc = "returned") =>
        /\ (call_ret.name # Null /\ call_ret.shares # Null) => call_ret.name # call_ret.shares
        /\ (call_ret.name # Null /\ call_ret.percent # Null) => call_ret.name # call_ret.percent
        /\ (call_ret.shares # Null /\ call_ret.percent # Null) =>
              call_ret.shares # call_ret.percent


====
